---- MODULE Spec2Model ----
(***************************************************************************)
(* Model of trade-scenario-js: the column store (ArrayMap / Klines), the   *)
(* candle normaliser (Klines.invert) and the replay loop with its ledger   *)
(* (CryptoTradeScenario).                                                  *)
(*                                                                         *)
(* JavaScript values are records tagged by t: a number is the fraction     *)
(* n/d in lowest terms (d = 0 encodes NaN, +Infinity, -Infinity), and      *)
(* undefined, null and strings have tags of their own.                     *)
(***************************************************************************)
EXTENDS Integers, Sequences, FiniteSets, TLC

\* ------------------------------------------------------------------ bounds
MaxCap == 2
MaxBatch == 3
MaxLen == 3
MaxAppended == 4

\* ------------------------------------------------------ JavaScript numbers
Abs(x) == IF x < 0 THEN -x ELSE x

Sign(x) == IF x < 0 THEN -1 ELSE IF x > 0 THEN 1 ELSE 0

RECURSIVE GCD(_, _)
GCD(a, b) == IF b = 0 THEN a ELSE GCD(b, a % b)

Num(n, d) ==
    IF d = 0 THEN [t |-> "num", n |-> Sign(n), d |-> 0]
    ELSE LET g == GCD(Abs(n), Abs(d))
         IN  [t |-> "num", n |-> (Sign(d) * n) \div g, d |-> Abs(d) \div g]

Int2Num(i) == Num(i, 1)
NaN == Num(0, 0)
Undef == [t |-> "undef"]
Null == [t |-> "null"]
Str(s) == [t |-> "str", s |-> s]

IsNum(v) == v.t = "num"
IsNaN(v) == IsNum(v) /\ v.d = 0 /\ v.n = 0
IsInf(v) == IsNum(v) /\ v.d = 0 /\ v.n # 0
IsFinite(v) == IsNum(v) /\ v.d # 0

\* ToNumber: undefined -> NaN, null -> 0, the strings of the model are
\* handled by StrFloat.
StrFloat(s) ==
    CASE s = "2.5" -> Num(5, 2)
      [] s = "7" -> Num(7, 1)
      [] OTHER -> NaN

NumAdd(a, b) ==
    IF IsNaN(a) \/ IsNaN(b) THEN NaN
    ELSE IF IsInf(a) THEN (IF IsInf(b) /\ b.n # a.n THEN NaN ELSE a)
    ELSE IF IsInf(b) THEN b
    ELSE Num(a.n * b.d + b.n * a.d, a.d * b.d)

NumNeg(a) == [a EXCEPT !.n = -a.n]

NumSub(a, b) == NumAdd(a, NumNeg(b))

NumDiv(a, b) ==
    IF IsNaN(a) \/ IsNaN(b) THEN NaN
    ELSE IF IsInf(a) THEN (IF IsInf(b) THEN NaN
                           ELSE IF b.n < 0 THEN NumNeg(a) ELSE a)
    ELSE IF IsInf(b) THEN Int2Num(0)
    ELSE Num(a.n * b.d, a.d * b.n)

\* a >= b, false as soon as one side is NaN
NumGe(a, b) ==
    IF IsNaN(a) \/ IsNaN(b) THEN FALSE
    ELSE IF IsInf(a) THEN (a.n = 1 \/ (IsInf(b) /\ b.n = -1))
    ELSE IF IsInf(b) THEN b.n = -1
    ELSE a.n * b.d >= b.n * a.d

\* a <= 0
NumLeZero(a) == IF IsNaN(a) THEN FALSE ELSE a.n <= 0

\* parseFloat / parseInt on the values of the model
ParseFloat(v) ==
    CASE v.t = "num" -> v
      [] v.t = "str" -> StrFloat(v.s)
      [] OTHER -> NaN

Trunc(v) ==
    IF ~IsFinite(v) THEN NaN
    ELSE Int2Num(Sign(v.n) * (Abs(v.n) \div v.d))

ParseInt(v) == Trunc(ParseFloat(v))

\* ------------------------------------------------------------ sequences
Min2(a, b) == IF a < b THEN a ELSE b
Max2(a, b) == IF a > b THEN a ELSE b

\* Array.prototype.splice(start, deleteCount, ...items) on one array
ArraySplice(arr, start, deleteCount, items) ==
    LET s == Max2(0, Min2(start, Len(arr)))
        dc == Max2(0, Min2(deleteCount, Len(arr) - s))
    IN  SubSeq(arr, 1, s) \o items \o SubSeq(arr, s + dc + 1, Len(arr))

\* ------------------------------------------------------------- ArrayMap
VARIABLES values, limit, appended, onlyPush, lastOp

storeVars == <<values, limit, appended, onlyPush, lastOp>>

\* listeners: what the function stored under each event name does;
\* outcome: how the last call of a method of the store ended
VARIABLES listeners, outcome

eventVars == <<listeners, outcome>>

Events == {"onNewPropertyAdded", "onAdded", "onRemoved", "onCleared", "onChanged",
           "onError"}

RECURSIVE MaxLenOf(_, _)
MaxLenOf(vals, ks) ==
    IF ks = {} THEN 0
    ELSE LET k == CHOOSE x \in ks : TRUE
         IN  Max2(Len(vals[k]), MaxLenOf(vals, ks \ {k}))

\* get length(): the longest column
AM_length(vals) == MaxLenOf(vals, DOMAIN vals)

\* addKey(...keys): a new column is filled with undefined up to the length
AM_addKey(vals, keys) ==
    LET n == AM_length(vals)
    IN  [k \in (DOMAIN vals) \cup keys |->
            IF k \in DOMAIN vals THEN vals[k] ELSE [i \in 1..n |-> Undef]]

AM_pushOne(vals, obj) ==
    LET v1 == AM_addKey(vals, DOMAIN obj)
    IN  [k \in DOMAIN v1 |->
            Append(v1[k], IF k \in DOMAIN obj THEN obj[k] ELSE Undef)]

RECURSIVE AM_push(_, _)
AM_push(vals, objs) ==
    IF objs = <<>> THEN vals
    ELSE AM_push(AM_pushOne(vals, Head(objs)), Tail(objs))

AM_splice(vals, start, deleteCount, items) ==
    LET s == Max2(0, Min2(start, AM_length(vals)))
        dc == Min2(AM_length(vals) - s, deleteCount)
    IN  [k \in DOMAIN vals |->
            ArraySplice(vals[k], s, dc,
                [i \in 1..Len(items) |->
                    IF k \in DOMAIN items[i] THEN items[i][k] ELSE Undef])]

\* getItemAt(index), index from 0
AM_getItemAt(vals, index) ==
    [k \in DOMAIN vals |->
        IF index >= 0 /\ index < Len(vals[k]) THEN vals[k][index + 1] ELSE Undef]

\* setValueAt(index, key, value) for a key that is a string: the store it
\* leaves and the event it triggers
AM_setValueAt(vals, index, key, value) ==
    LET v1 == IF key \in DOMAIN vals THEN vals ELSE AM_addKey(vals, {key})
    IN  IF index < 0 \/ index >= AM_length(v1)
        THEN [vals |-> v1, event |-> "onError"]
        ELSE [vals |-> [v1 EXCEPT ![key][index + 1] = value], event |-> "onChanged"]

\* ---- the methods of ArrayMap with their events
\* trigger(event, ...args): a listener that throws sends the error to
\* trigger('onError', e) from the catch block; when the onError listener
\* throws as well, every call ends in a further call and the recursion has no
\* end ("overflow")
AM_trigger(ls, event) ==
    IF ls[event] # "throws" THEN "returned"
    ELSE IF ls["onError"] # "throws" THEN "returned"
    ELSE "overflow"

\* what the build makes of a recursion without end: the RangeError of the
\* exhausted stack leaves through the catch blocks to the caller, or the
\* call never returns
OverflowOutcomes == {"threw", "noreturn"}

\* the store and the end of a method that stops at the trigger of event
AM_after(vals, ls, event) == [vals |-> vals, out |-> AM_trigger(ls, event)]

\* addKey(...keys), keys in the order given
RECURSIVE AM_addKeyEv(_, _, _)
AM_addKeyEv(vals, keys, ls) ==
    IF keys = <<>> THEN [vals |-> vals, out |-> "returned"]
    ELSE IF Head(keys) \in DOMAIN vals THEN AM_addKeyEv(vals, Tail(keys), ls)
    ELSE IF AM_trigger(ls, "onNewPropertyAdded") = "overflow"
         THEN AM_after(AM_addKey(vals, {Head(keys)}), ls, "onNewPropertyAdded")
    ELSE AM_addKeyEv(AM_addKey(vals, {Head(keys)}), Tail(keys), ls)

\* Object.keys(obj): the keys of obj in one order
RECURSIVE KeysOf(_)
KeysOf(obj) ==
    IF DOMAIN obj = {} THEN <<>>
    ELSE LET k == CHOOSE x \in DOMAIN obj : TRUE
         IN  <<k>> \o KeysOf([x \in (DOMAIN obj) \ {k} |-> obj[x]])

\* push(...objects)
RECURSIVE AM_pushEv(_, _, _)
AM_pushEv(vals, objs, ls) ==
    IF objs = <<>> THEN [vals |-> vals, out |-> "returned"]
    ELSE IF AM_addKeyEv(vals, KeysOf(Head(objs)), ls).out = "overflow"
         THEN AM_addKeyEv(vals, KeysOf(Head(objs)), ls)
    ELSE IF AM_trigger(ls, "onAdded") = "overflow"
         THEN AM_after(AM_pushOne(vals, Head(objs)), ls, "onAdded")
    ELSE AM_pushEv(AM_pushOne(vals, Head(objs)), Tail(objs), ls)

\* pop() without its events
AM_pop(vals) ==
    [k \in DOMAIN vals |-> IF vals[k] = <<>> THEN <<>>
                           ELSE SubSeq(vals[k], 1, Len(vals[k]) - 1)]

\* pop()
AM_popEv(vals, ls) ==
    IF AM_length(vals) = 0 THEN [vals |-> vals, out |-> "returned"]
    ELSE AM_after(AM_pop(vals), ls, "onRemoved")

\* splice(start, deleteCount, ...items)
AM_spliceEv(vals, start, deleteCount, items, ls) ==
    LET s == Max2(0, Min2(start, AM_length(vals)))
        dc == Min2(AM_length(vals) - s, deleteCount)
    IN  IF dc > 0 /\ AM_trigger(ls, "onRemoved") = "overflow"
        THEN AM_after(AM_splice(vals, start, deleteCount, items), ls, "onRemoved")
        ELSE IF Len(items) > 0
             THEN AM_after(AM_splice(vals, start, deleteCount, items), ls, "onAdded")
        ELSE [vals |-> AM_splice(vals, start, deleteCount, items), out |-> "returned"]

\* clear() without its event
AM_clear(vals) == [k \in DOMAIN vals |-> <<>>]

\* clear()
AM_clearEv(vals, ls) == AM_after(AM_clear(vals), ls, "onCleared")

\* setValueAt(index, key, value) for a key that is a string
AM_setValueAtEv(vals, index, key, value, ls) ==
    IF AM_addKeyEv(vals, <<key>>, ls).out = "overflow"
    THEN AM_addKeyEv(vals, <<key>>, ls)
    ELSE AM_after(AM_setValueAt(vals, index, key, value).vals, ls,
                  AM_setValueAt(vals, index, key, value).event)

\* --------------------------------------------------------------- Klines
Source == <<"timestamp", "open", "high", "low", "close", "volume",
            "hl2", "hlc3", "ohlc4", "hlcc4">>

\* this.source.slice(6, 10)
KeysOut == SubSeq(Source, 7, 10)

Candidates == <<"1", "o", "open", "O", "OPEN">>

FirstChar(s) ==
    CASE s = "hl2" -> "h" [] s = "hlc3" -> "h" [] s = "ohlc4" -> "o"
      [] s = "hlcc4" -> "h" [] s = "timestamp" -> "t" [] s = "open" -> "o"
      [] s = "high" -> "h" [] s = "low" -> "l" [] s = "close" -> "c"
      [] OTHER -> "v"

ToUpper(s) ==
    CASE s = "hl2" -> "HL2" [] s = "hlc3" -> "HLC3" [] s = "ohlc4" -> "OHLC4"
      [] s = "hlcc4" -> "HLCC4" [] s = "h" -> "H" [] s = "o" -> "O"
      [] s = "t" -> "T" [] s = "l" -> "L" [] s = "c" -> "C"
      [] s = "timestamp" -> "TIMESTAMP" [] s = "open" -> "OPEN"
      [] s = "high" -> "HIGH" [] s = "low" -> "LOW" [] s = "close" -> "CLOSE"
      [] OTHER -> "V"

TransformFn(i, e) ==
    CASE i = 1 -> FirstChar(e)
      [] i = 2 -> FirstChar(e)
      [] i = 3 -> e
      [] i = 4 -> ToUpper(FirstChar(e))
      [] OTHER -> ToUpper(e)

Field(obj, k) == IF k \in DOMAIN obj THEN obj[k] ELSE Undef

\* the first candidate whose field of the first record parses as a number
\* (0: none)
SchemeOf(first) ==
    LET ok == {i \in 1..Len(Candidates) :
                  ~IsNaN(ParseFloat(Field(first, Candidates[i])))}
    IN  IF ok = {} THEN 0 ELSE CHOOSE i \in ok : \A j \in ok : i <= j

Invert(data) ==
    IF Len(data) = 0 THEN <<>>
    ELSE LET sch == SchemeOf(data[1])
         IN  IF sch = 0 THEN <<>>
             ELSE [r \in 1..Len(data) |->
                     [k \in {KeysOut[i] : i \in 1..Len(KeysOut)} |->
                         LET i == CHOOSE j \in 1..Len(KeysOut) : KeysOut[j] = k
                             raw == Field(data[r], TransformFn(sch, KeysOut[i]))
                         IN  IF i = 1 THEN ParseInt(raw) ELSE ParseFloat(raw)]]

\* Klines.push(...objects)
K_push(vals, lim, objects) ==
    LET results == Invert(objects)
        count == Len(results) + AM_length(vals)
        v1 == AM_splice(vals, 0, IF count > lim THEN count - lim ELSE 0, <<>>)
    IN  AM_push(v1, results)

\* Klines.splice(start, deleteCount, ...objects); start is a number here
K_splice(vals, lim, start, deleteCount, objects) ==
    IF start < 0 THEN vals
    ELSE LET results == Invert(objects)
             len == (AM_length(vals) - start)
                       - (IF deleteCount >= 0 THEN deleteCount ELSE 0)
             count == Len(results) + len
             v1 == AM_splice(vals, 0, IF count > lim THEN count - lim ELSE 0, <<>>)
         IN  AM_splice(v1, start, deleteCount, results)

\* raw records handed to the store
RowA == ("o" :> Int2Num(1)) @@ ("h" :> Int2Num(2))
RowB == ("o" :> Int2Num(1)) @@ ("h" :> Str("2.5"))
RowC == ("open" :> Str("7")) @@ ("hl2" :> Int2Num(3)) @@ ("hlc3" :> Int2Num(3))
           @@ ("ohlc4" :> Int2Num(3)) @@ ("hlcc4" :> Int2Num(3))
RowX == ("close" :> Int2Num(5))
RawRows == {RowA, RowB, RowC, RowX}

RECURSIVE SeqsUpTo(_, _)
SeqsUpTo(S, n) ==
    IF n = 0 THEN {<<>>}
    ELSE LET prev == SeqsUpTo(S, n - 1)
         IN  prev \cup {Append(q, x) : q \in {p \in prev : Len(p) = n - 1}, x \in S}

Batches == SeqsUpTo(RawRows, MaxBatch)

\* constructor(): this.limit = 100
KlinesLimit == 100

StoreNew(c) ==
    /\ values = [k \in {} |-> <<>>]
    /\ limit = c
    /\ appended = <<>>
    /\ onlyPush = TRUE
    /\ lastOp = "new"
    /\ listeners = [e \in Events |-> "none"]
    /\ outcome = "returned"

\* appended: the rows appended so far, kept while the store has only been
\* pushed to
KPush(objects) ==
    /\ onlyPush => Len(appended) + Len(Invert(objects)) <= MaxAppended
    /\ values' = K_push(values, limit, objects)
    /\ AM_length(values') <= MaxLen
    /\ appended' = IF onlyPush THEN appended \o Invert(objects) ELSE <<>>
    /\ lastOp' = "push"
    /\ UNCHANGED <<limit, onlyPush>>

KSplice(start, deleteCount, objects) ==
    /\ values' = K_splice(values, limit, start, deleteCount, objects)
    /\ AM_length(values') <= MaxLen
    /\ onlyPush' = FALSE
    /\ appended' = <<>>
    /\ lastOp' = "splice"
    /\ UNCHANGED limit

\* setValueAt(index, key, value), inherited from ArrayMap; lastOp is the
\* event it has triggered
KSetValueAt(index, key, value) ==
    /\ values' = AM_setValueAt(values, index, key, value).vals
    /\ lastOp' = AM_setValueAt(values, index, key, value).event
    /\ onlyPush' = FALSE
    /\ appended' = <<>>
    /\ UNCHANGED limit

\* ---- calls on an ArrayMap that has listeners
MaxRows == 2

\* the listeners that get registered: one that throws for every event, one
\* that returns for onAdded and for onError
ListenerChoices ==
    {<<e, "throws">> : e \in Events} \cup {<<"onAdded", "returns">>, <<"onError", "returns">>}

EventRows == {RowX}
EventBatches == SeqsUpTo(EventRows, MaxRows) \ {<<>>}
EventKeys == {<<"x", "y">>}
EventIndexes == -1..0
EventSetKeys == {"close", "x"}
EventValues == {Int2Num(5)}

\* store.listeners[event] = fn
SetListener(event, kind) ==
    /\ outcome # "noreturn"
    /\ listeners[event] = "none"
    /\ listeners' = [listeners EXCEPT ![event] = kind]
    /\ UNCHANGED <<storeVars, outcome>>

\* a method has run up to the store and the end in r
Called(r, op) ==
    /\ outcome # "noreturn"
    /\ AM_length(r.vals) <= MaxRows
    /\ values' = r.vals
    /\ outcome' \in IF r.out = "overflow" THEN OverflowOutcomes ELSE {"returned"}
    /\ lastOp' = op
    /\ onlyPush' = FALSE
    /\ appended' = <<>>
    /\ UNCHANGED <<limit, listeners>>

EvAddKey(keys) == Called(AM_addKeyEv(values, keys, listeners), "addKey")

EvPush(objects) == Called(AM_pushEv(values, objects, listeners), "push")

EvPop == Called(AM_popEv(values, listeners), "pop")

EvSplice(start, deleteCount, items) ==
    Called(AM_spliceEv(values, start, deleteCount, items, listeners), "splice")

EvClear == Called(AM_clearEv(values, listeners), "clear")

EvSetValueAt(index, key, value) ==
    Called(AM_setValueAtEv(values, index, key, value, listeners), "setValueAt")

SetIndexes == -1..MaxLen
SetKeys == {"hl2", "x"}
SetValues == {Int2Num(9)}

SpliceStarts == -1..MaxLen
SpliceCounts == -1..2
SpliceRows == SeqsUpTo(RawRows, 1)

StoreNext ==
    \/ \E objects \in Batches : KPush(objects)
    \/ \E start \in SpliceStarts, dc \in SpliceCounts, objects \in SpliceRows :
          KSplice(start, dc, objects)

\* ------------------------------------------------- CryptoTradeScenario
VARIABLES api, dataKeys, dataMap, wallet, indicators, strategies, slimit,
          phase, startResult, pairs, tempDataMap, timestamps, t,
          stage, pi, si, price,
          tickLog, processed, callLog, afterOrders, seen, lastOrder, ordersLeft

scenVars == <<api, dataKeys, dataMap, wallet, indicators, strategies, slimit,
              phase, startResult, pairs, tempDataMap, timestamps, t,
              stage, pi, si, price,
              tickLog, processed, callLog, afterOrders, seen, lastOrder, ordersLeft>>


\* the replays started on the scenario, one record per call of start(): the
\* pairs, tempDataMap, timestamps and t of its closure
VARIABLES runs

runVars == <<runs>>

MaxStrategies == 2
MaxRuns == 2
MaxCandles == 2
MaxOrders == 2
DefaultLimit == 100
IndicatorLimit == 200

\* parseSymbolPair on the strings of the model: <<>> stands for null
ParseSymbolPair(input) ==
    CASE input = "a/b" -> <<"A", "B">>
      [] input = "A/B" -> <<"A", "B">>
      [] input = "b-a" -> <<"B", "A">>
      [] input = "B/A" -> <<"B", "A">>
      [] OTHER -> <<>>

PairKey(pair) ==
    IF pair = <<"A", "B">> THEN "A/B" ELSE "B/A"

PairInputs == {"a/b", "b-a", "ab"}

ToUpperSym(k) ==
    CASE k = "a" -> "A" [] k = "b" -> "B" [] k = "c" -> "C" [] OTHER -> k

\* the objects handed to setWallet
WalletInputs == {("b" :> Int2Num(4)) @@ ("c" :> Int2Num(4))}

\* obj[key] = value on a map kept as a function
MapSet(m, k, v) == [x \in (DOMAIN m) \cup {k} |-> IF x = k THEN v ELSE m[x]]

EmptyMap == [k \in {} |-> 0]

\* candles as the normalised fetch delivers them
Candle(ts, h, l, c) ==
    [timestamp |-> ts, high |-> Int2Num(h), low |-> Int2Num(l), close |-> Int2Num(c)]

Candles == {Candle(1, 3, 1, 1), Candle(2, 5, -3, 1), Candle(2, -1, -3, -3)}

PriceLists == SeqsUpTo(Candles, MaxCandles)

\* ---- indicators (MovingAverage)
RECURSIVE NumSum(_)
NumSum(vs) == IF vs = <<>> THEN Int2Num(0) ELSE NumAdd(Head(vs), NumSum(Tail(vs)))

\* MovingAverage.calc(values)
MA_calc(vs) ==
    IF \E i \in 1..Len(vs) : ~IsNum(vs[i]) THEN Null
    ELSE NumDiv(NumSum(vs), Int2Num(Len(vs)))

\* the loop of MovingAverage.push from index i (0-based) on
RECURSIVE MA_loop(_, _, _, _)
MA_loop(baseArr, numberArray, period, i) ==
    IF i >= Len(numberArray) THEN baseArr
    ELSE MA_loop(
            Append(baseArr,
                IF i + 1 < period THEN Null
                ELSE MA_calc(SubSeq(numberArray, i + 2 - period, i + 1))),
            numberArray, period, i + 1)

\* MovingAverage.push(numberArray); the argument is [isArray, items]
MA_push(ind, input) ==
    IF ~input.isArray THEN ind
    ELSE [ind EXCEPT !.base = MA_loop(ind.base, input.items, ind.period, Len(ind.base))]

\* Indicator.setLimit(limit)
Ind_setLimit(ind, lim) ==
    IF lim < 0 THEN ind
    ELSE [ind EXCEPT !.limit = lim,
                     !.base = IF lim < Len(ind.base)
                              THEN ArraySplice(ind.base, 0, Len(ind.base) - lim, <<>>)
                              ELSE ind.base]

\* Indicator.clone(): new this.constructor(this)
Ind_clone(ind) == [kind |-> ind.kind, period |-> ind.period, limit |-> ind.limit, base |-> <<>>]

NewMA(period) == [kind |-> "MA", period |-> period, limit |-> IndicatorLimit, base |-> <<>>]

IndicatorKeys == {"ma"}
IndicatorPeriods == {2}

\* the argument the loop hands to indicator.push: the candle itself, as no
\* indicator has a source function
IndicatorInput(ind, candle) == [isArray |-> FALSE, items |-> <<candle>>]

\* ------------------------------------------------- indicators (part_002)
MaxCalls == 3

\* ToNumber of the values of the model
ToNumber(v) ==
    CASE v.t = "num" -> v
      [] v.t = "null" -> Int2Num(0)
      [] v.t = "str" -> StrFloat(v.s)
      [] OTHER -> NaN

NumMul(a, b) ==
    IF IsNaN(a) \/ IsNaN(b) THEN NaN
    ELSE IF (IsInf(a) /\ b.n = 0) \/ (IsInf(b) /\ a.n = 0) THEN NaN
    ELSE Num(a.n * b.n, a.d * b.d)

\* a + b, a - b on values that are not strings
JAdd(a, b) == NumAdd(ToNumber(a), ToNumber(b))
JSub(a, b) == NumSub(ToNumber(a), ToNumber(b))

\* a > b, a < b
JGt(a, b) == NumGe(ToNumber(a), ToNumber(b)) /\ ToNumber(a) # ToNumber(b)
JLt(a, b) == JGt(b, a)

MathAbs(a) == [ToNumber(a) EXCEPT !.n = Abs(@)]

\* Math.max(a, b), Math.min(a, b): NaN as soon as one argument is NaN
MathMax(a, b) ==
    IF IsNaN(ToNumber(a)) \/ IsNaN(ToNumber(b)) THEN NaN
    ELSE IF NumGe(ToNumber(a), ToNumber(b)) THEN ToNumber(a) ELSE ToNumber(b)

MathMin(a, b) ==
    IF IsNaN(ToNumber(a)) \/ IsNaN(ToNumber(b)) THEN NaN
    ELSE IF NumGe(ToNumber(a), ToNumber(b)) THEN ToNumber(b) ELSE ToNumber(a)

\* a ?? b and a == null
IsNullish(a) == a.t \in {"undef", "null"}
Coalesce(a, b) == IF IsNullish(a) THEN b ELSE a

\* typeof v === 'object'
TypeofObject(v) == v.t \in {"obj", "null"}

\* arr.at(-1)
AtLast(arr) == IF arr = <<>> THEN Undef ELSE arr[Len(arr)]

\* arr.slice(-n) for n >= 1
SliceLast(arr, n) == SubSeq(arr, Max2(1, Len(arr) - n + 1), Len(arr))

\* reduce((a, b) => a + b, 0)
RECURSIVE ReduceSum(_)
ReduceSum(vs) ==
    IF vs = <<>> THEN Int2Num(0)
    ELSE JAdd(ReduceSum(SubSeq(vs, 1, Len(vs) - 1)), vs[Len(vs)])

\* a candle object handed to an indicator (a field that is missing is Undef)
PriceObject(h, l, c) == [t |-> "obj", high |-> h, low |-> l, close |-> c]

\* variant: the average starts again from the current value when there is no
\* previous average
EMA_calc_restart(current, prev, period) ==
    IF ~IsNum(current) THEN Null
    ELSE IF ~IsNum(prev) THEN current
    ELSE NumAdd(NumMul(NumSub(current, prev), Num(2, period + 1)), prev)

\* ExponentialMovingAverage.calc(current, prev, period)
EMA_calc(current, prev, period) ==
    IF ~IsNum(current) \/ ~IsNum(prev) THEN Null
    ELSE NumAdd(NumMul(NumSub(current, prev), Num(2, period + 1)), prev)

\* the loop of ExponentialMovingAverage.push from index i (0-based) on
RECURSIVE EMA_loop(_, _, _, _)
EMA_loop(baseArr, numberArray, period, i) ==
    IF i >= Len(numberArray) THEN baseArr
    ELSE LET current == numberArray[i + 1]
             out == IF ~IsNum(current) THEN Null
                    ELSE IF i < period - 1 THEN Null
                    ELSE IF i = period - 1
                         THEN MA_calc(SubSeq(numberArray, i + 2 - period, i + 1))
                    ELSE EMA_calc(current, baseArr[i], period)
         IN  EMA_loop(Append(baseArr, out), numberArray, period, i + 1)

\* the loop of RelativeStrengthIndex.push from index i (0-based) on; cols is
\* this.values
RECURSIVE RSI_loop(_, _, _, _)
RSI_loop(cols, numberArray, period, i) ==
    IF i >= Len(numberArray) THEN cols
    ELSE LET curr == numberArray[i + 1]
             prev == IF i = 0 THEN Undef ELSE numberArray[i]
         IN  IF ~IsNum(curr) \/ ~IsNum(prev)
             THEN RSI_loop([cols EXCEPT !.base = Append(@, Null),
                                        !.gain = Append(@, Null),
                                        !.loss = Append(@, Null)],
                           numberArray, period, i + 1)
             ELSE LET change == NumSub(curr, prev)
                      gainArr == Append(cols.gain, MathMax(change, Int2Num(0)))
                      lossArr == Append(cols.loss, MathMax(NumNeg(change), Int2Num(0)))
                      avgGain == NumDiv(ReduceSum(SliceLast(gainArr, period)),
                                        Int2Num(period))
                      avgLoss == NumDiv(ReduceSum(SliceLast(lossArr, period)),
                                        Int2Num(period))
                      rs == IF avgLoss = Int2Num(0) THEN Int2Num(100)
                            ELSE NumDiv(avgGain, avgLoss)
                      rsi == IF Len(gainArr) >= period
                             THEN NumSub(Int2Num(100),
                                         NumDiv(Int2Num(100), NumAdd(Int2Num(1), rs)))
                             ELSE Null
                  IN  RSI_loop([cols EXCEPT !.base = Append(@, rsi),
                                             !.gain = gainArr,
                                             !.loss = lossArr],
                               numberArray, period, i + 1)

\* the loop of MovingAverageConvergenceDivergence.push from index i (0-based)
\* on; cols is this.values
RECURSIVE MACD_loop(_, _, _, _, _, _)
MACD_loop(cols, numberArray, shortPeriod, longPeriod, signalPeriod, i) ==
    IF i >= Len(numberArray) THEN cols
    ELSE LET price0 == numberArray[i + 1]
         IN  IF ~IsNum(price0)
             THEN MACD_loop([k \in DOMAIN cols |-> Append(cols[k], Null)], numberArray,
                            shortPeriod, longPeriod, signalPeriod, i + 1)
             ELSE LET short == IF i = shortPeriod - 1
                               THEN MA_calc(SubSeq(numberArray, i + 2 - shortPeriod, i + 1))
                               ELSE IF i >= shortPeriod
                                    THEN EMA_calc(price0, cols.short[i], shortPeriod)
                               ELSE Null
                      long == IF i = longPeriod - 1
                              THEN MA_calc(SubSeq(numberArray, i + 2 - longPeriod, i + 1))
                              ELSE IF i >= longPeriod
                                   THEN EMA_calc(price0, cols.long[i], longPeriod)
                              ELSE Null
                      base == IF IsNum(short) /\ IsNum(long) THEN NumSub(short, long)
                              ELSE Null
                      baseArr == Append(cols.base, base)
                      signal == IF i = longPeriod + signalPeriod - 2
                                THEN MA_calc(SubSeq(baseArr, i + 2 - signalPeriod, i + 1))
                                ELSE IF i > longPeriod + signalPeriod - 2
                                     THEN EMA_calc(base, cols.signal[i], signalPeriod)
                                ELSE Null
                      histogram == IF IsNum(base) /\ IsNum(signal)
                                   THEN NumSub(base, signal) ELSE Null
                  IN  MACD_loop([short |-> Append(cols.short, short),
                                 long |-> Append(cols.long, long),
                                 base |-> baseArr,
                                 signal |-> Append(cols.signal, signal),
                                 histogram |-> Append(cols.histogram, histogram)],
                                numberArray, shortPeriod, longPeriod, signalPeriod, i + 1)

\* (high + low) / 2
HL2(high, low) == NumDiv(JAdd(high, low), Int2Num(2))

\* variant: the true range is the range of the bar alone
ATR_tr_highLow(high, low, prevClose) == JSub(high, low)

\* the true range of a candle
ATR_tr(high, low, prevClose) ==
    MathMax(MathMax(JSub(high, low), MathAbs(JSub(high, prevClose))),
            MathAbs(JSub(low, prevClose)))

\* the ATR appended once the true range has been appended to trueRangeArr
ATR_atr(trueRangeArr, baseArr, period, tr) ==
    IF Len(trueRangeArr) < period THEN NaN
    ELSE IF Len(trueRangeArr) = period
         THEN NumDiv(ReduceSum(SubSeq(trueRangeArr, 1, period)), Int2Num(period))
    ELSE NumDiv(NumAdd(NumMul(ToNumber(AtLast(baseArr)), Int2Num(period - 1)), tr),
                Int2Num(period))

\* the pushes and the assignment of prevClose
ATR_append(ind, tr, close) ==
    [ind EXCEPT !.values.range = Append(@, tr),
                !.values.base = Append(@, ATR_atr(Append(ind.values.range, tr), @,
                                                  ind.period, tr)),
                !.prevClose = close]

\* the body of the loop of AverageTrueRange.push for one candle object
ATR_one(ind, value) ==
    ATR_append(ind,
               ATR_tr(value.high, value.low,
                      Coalesce(ind.prevClose, HL2(value.high, value.low))),
               Coalesce(value.close, HL2(value.high, value.low)))

\* the loop of AverageTrueRange.push over priceArray from element i (1-based)
\* on: an element that is no object is skipped, and reading a field of null
\* is a TypeError
RECURSIVE ATR_loop(_, _, _)
ATR_loop(ind, priceArray, i) ==
    IF i > Len(priceArray) THEN [ind |-> ind, threw |-> FALSE]
    ELSE IF ~TypeofObject(priceArray[i]) THEN ATR_loop(ind, priceArray, i + 1)
    ELSE IF priceArray[i].t = "null" THEN [ind |-> ind, threw |-> TRUE]
    ELSE ATR_loop(ATR_one(ind, priceArray[i]), priceArray, i + 1)

\* AverageTrueRange.push(priceArray); the argument is [isArray, items]
ATR_push(ind, input) ==
    IF ~input.isArray \/ Len(input.items) = 0 THEN [ind |-> ind, threw |-> FALSE]
    ELSE ATR_loop(ind, input.items, 1)

\* variant: the trend follows the close against the previous bands and is
\* never held
ST_trend_neverHeld(prevTrend, close, prevUpper, prevLower) ==
    IF IsNullish(prevTrend) THEN Int2Num(1)
    ELSE IF JGt(close, prevUpper) THEN Int2Num(1)
    ELSE Int2Num(-1)

\* the trend of a tick with a finite ATR
ST_trend(prevTrend, close, prevUpper, prevLower) ==
    IF IsNullish(prevTrend) THEN Int2Num(1)
    ELSE IF JGt(close, prevUpper) THEN Int2Num(1)
    ELSE IF JLt(close, prevLower) THEN Int2Num(-1)
    ELSE prevTrend

\* finalUpper, finalLower
ST_upper(trend, upperBand, prevUpper) ==
    IF trend = Int2Num(1) /\ ~IsNullish(prevUpper)
    THEN MathMin(upperBand, prevUpper) ELSE upperBand

ST_lower(trend, lowerBand, prevLower) ==
    IF trend = Int2Num(-1) /\ ~IsNullish(prevLower)
    THEN MathMax(lowerBand, prevLower) ELSE lowerBand

\* the row of a tick: atr is the ATR its candle has just been given
ST_row(candle, atr, multiplier, prevUpper, prevLower, prevTrend) ==
    IF ~IsFinite(ToNumber(atr))
    THEN [hasAtr |-> FALSE, upper |-> NaN, lower |-> NaN, trend |-> Null]
    ELSE [hasAtr |-> TRUE,
          upper |-> ST_upper(ST_trend(prevTrend,
                                      Coalesce(candle.close,
                                               HL2(candle.high, candle.low)),
                                      prevUpper, prevLower),
                             NumAdd(HL2(candle.high, candle.low),
                                    NumMul(multiplier, atr)),
                             prevUpper),
          lower |-> ST_lower(ST_trend(prevTrend,
                                      Coalesce(candle.close,
                                               HL2(candle.high, candle.low)),
                                      prevUpper, prevLower),
                             NumSub(HL2(candle.high, candle.low),
                                    NumMul(multiplier, atr)),
                             prevLower),
          trend |-> ST_trend(prevTrend,
                             Coalesce(candle.close, HL2(candle.high, candle.low)),
                             prevUpper, prevLower)]

\* the three pushes of a tick
ST_append(ind, row) ==
    [ind EXCEPT !.values.upper = Append(@, row.upper),
                !.values.lower = Append(@, row.lower),
                !.values.trend = Append(@, row.trend)]

\* the loop of SuperTrend.push over priceArray from element i (1-based) on:
\* ST_loop up to super.push([price]), ST_next from its return on, ST_step the
\* pushes and the values carried into the next round
RECURSIVE ST_loop(_, _, _, _, _, _)
RECURSIVE ST_next(_, _, _, _, _, _)
RECURSIVE ST_step(_, _, _, _, _, _, _)
ST_loop(ind, priceArray, i, prevUpper, prevLower, prevTrend) ==
    IF i > Len(priceArray) THEN [ind |-> ind, threw |-> FALSE]
    ELSE IF ~TypeofObject(priceArray[i])
         THEN ST_loop(ind, priceArray, i + 1, prevUpper, prevLower, prevTrend)
    ELSE ST_next(ATR_push(ind, [isArray |-> TRUE, items |-> <<priceArray[i]>>]),
                 priceArray, i, prevUpper, prevLower, prevTrend)

ST_next(r, priceArray, i, prevUpper, prevLower, prevTrend) ==
    IF r.threw THEN r
    ELSE ST_step(r.ind,
                 ST_row(priceArray[i], AtLast(r.ind.values.base), r.ind.multiplier,
                        prevUpper, prevLower, prevTrend),
                 priceArray, i, prevUpper, prevLower, prevTrend)

ST_step(ind, row, priceArray, i, prevUpper, prevLower, prevTrend) ==
    IF row.hasAtr
    THEN ST_loop(ST_append(ind, row), priceArray, i + 1, row.upper, row.lower, row.trend)
    ELSE ST_loop(ST_append(ind, row), priceArray, i + 1, prevUpper, prevLower, prevTrend)

\* SuperTrend.push(priceArray)
ST_push(ind, input) ==
    IF ~input.isArray \/ Len(input.items) = 0 THEN [ind |-> ind, threw |-> FALSE]
    ELSE ST_loop(ind, input.items, 1, AtLast(ind.values.upper),
                 AtLast(ind.values.lower), AtLast(ind.values.trend))

\* ---- the Indicator class and its instances
VARIABLES ind, copy, errors, calls

indVars == <<ind, copy, errors, calls>>

vars == <<storeVars, scenVars, indVars, runVars, eventVars>>

MaxItems == 3

\* get length() of Indicator reads `items`, which no enclosing scope
\* declares: the read is a ReferenceError
Ind_lengthRaises == TRUE

\* addKey(...keys) evaluates this.length when it creates a column
AM_addKeyReadsLength(vals, keys) == \E k \in keys : k \notin DOMAIN vals

\* new Indicator(options): super('base') creates the column base
Ind_constructorRaises == AM_addKeyReadsLength(EmptyMap, {"base"}) /\ Ind_lengthRaises

\* Indicator.setLimit(limit): limit < this.length is evaluated once the guard
\* has let the limit through
Ind_setLimitRaises(lim) == lim >= 0 /\ Ind_lengthRaises

\* Indicator.clone(): new this.constructor(this)
Ind_cloneRaises == Ind_constructorRaises

IndicatorKinds == {"MA", "EMA", "MACD", "RSI", "ATR", "ST"}
NumberKinds == {"MA", "EMA", "MACD", "RSI"}

\* the periods of the MACD instances
ShortPeriod == 1
LongPeriod == 2
SignalPeriod == 1

\* the columns the constructor of each variant adds
NewValues(kind) ==
    CASE kind \in {"MA", "EMA"} -> [base |-> <<>>]
      [] kind = "MACD" -> [base |-> <<>>, short |-> <<>>, long |-> <<>>,
                           signal |-> <<>>, histogram |-> <<>>]
      [] kind = "RSI" -> [base |-> <<>>, gain |-> <<>>, loss |-> <<>>]
      [] kind = "ATR" -> [base |-> <<>>, range |-> <<>>]
      [] OTHER -> [base |-> <<>>, range |-> <<>>, upper |-> <<>>, lower |-> <<>>,
                   trend |-> <<>>]

\* the fields the constructors assign (a MACD instance has no period but a
\* shortPeriod, a longPeriod and a signalPeriod); the instance is followed
\* past the error of its constructor so that its methods can be studied as
\* written
NewIndicator(kind, period, multiplier, lim) ==
    IF kind = "MACD"
    THEN [kind |-> kind, period |-> 0, multiplier |-> multiplier, limit |-> lim,
          prevClose |-> Null, values |-> NewValues(kind),
          shortPeriod |-> ShortPeriod, longPeriod |-> LongPeriod,
          signalPeriod |-> SignalPeriod]
    ELSE [kind |-> kind, period |-> period, multiplier |-> multiplier, limit |-> lim,
          prevClose |-> Null, values |-> NewValues(kind)]

\* new MovingAverageConvergenceDivergence({shortPeriod, longPeriod,
\* signalPeriod, limit}) with positive periods
NewMACD(shortPeriod, longPeriod, signalPeriod, lim) ==
    [NewIndicator("MACD", 0, Undef, lim) EXCEPT !.shortPeriod = shortPeriod,
                                                !.longPeriod = longPeriod,
                                                !.signalPeriod = signalPeriod]

\* push(array) of the variant of ind
Ind_push(ind0, items) ==
    LET input == [isArray |-> TRUE, items |-> items]
    IN  CASE ind0.kind = "MA" ->
               [ind |-> [ind0 EXCEPT !.values.base =
                            MA_loop(@, items, ind0.period, Len(@))],
                threw |-> FALSE]
          [] ind0.kind = "EMA" ->
               [ind |-> [ind0 EXCEPT !.values.base =
                            EMA_loop(@, items, ind0.period, Len(@))],
                threw |-> FALSE]
          [] ind0.kind = "MACD" ->
               [ind |-> [ind0 EXCEPT !.values =
                            MACD_loop(@, items, ind0.shortPeriod, ind0.longPeriod,
                                      ind0.signalPeriod, Len(@.base))],
                threw |-> FALSE]
          [] ind0.kind = "RSI" ->
               [ind |-> [ind0 EXCEPT !.values =
                            RSI_loop(@, items, ind0.period, Len(@.base))],
                threw |-> FALSE]
          [] ind0.kind = "ATR" -> ATR_push(ind0, input)
          [] OTHER -> ST_push(ind0, input)

\* the elements of the arrays handed to push
NumberItems == {Int2Num(1), Int2Num(3), Str("x"), Undef}

PriceItems ==
    {PriceObject(Int2Num(3), Int2Num(1), Int2Num(1)),
     PriceObject(Int2Num(-1), Int2Num(-3), Int2Num(-3)),
     PriceObject(Int2Num(6), Int2Num(4), Int2Num(6)),
     PriceObject(Undef, Int2Num(1), Int2Num(1)),
     Null, Int2Num(1)}

ItemsOf(kind) == IF kind \in NumberKinds THEN NumberItems ELSE PriceItems

IndicatorLimits == {1, IndicatorLimit}
Periods == {1, 2}
LimitInputs == {-1, 1}

NoIndicator == [kind |-> "none"]

RECURSIVE SumLen(_)
SumLen(ss) == IF ss = <<>> THEN 0 ELSE Len(Head(ss)) + SumLen(Tail(ss))

RECURSIVE Concat(_)
Concat(ss) == IF ss = <<>> THEN <<>> ELSE Head(ss) \o Concat(Tail(ss))

IndNone ==
    /\ ind = NewIndicator("MA", 1, Undef, IndicatorLimit)
    /\ copy = NoIndicator
    /\ errors = {}
    /\ calls = <<>>

\* new Variant({period, multiplier, limit})
IndNew(kind, period, lim) ==
    /\ ind = NewIndicator(kind, period,
                          IF kind = "ST" THEN Int2Num(1) ELSE Undef, lim)
    /\ copy = NoIndicator
    /\ errors = IF Ind_constructorRaises THEN {"constructor"} ELSE {}
    /\ calls = <<>>

\* indicator.push(items)
IndPush(items) ==
    /\ Len(calls) < MaxCalls
    /\ SumLen(calls) + Len(items) <= MaxItems
    /\ LET r == Ind_push(ind, items)
       IN  /\ ind' = r.ind
           /\ errors' = IF r.threw THEN errors \cup {"push"} ELSE errors
    /\ calls' = Append(calls, items)
    /\ UNCHANGED <<copy, storeVars, scenVars, runVars, eventVars>>

\* the elements a caller feeds to an indicator one after the other
FeedKinds == {"EMA", "RSI", "MACD", "ATR"}

FeedNumbers == {Int2Num(1), Int2Num(3), Str("x")}

FeedCandles ==
    {PriceObject(Int2Num(10), Int2Num(8), Int2Num(9)),
     PriceObject(Int2Num(11), Int2Num(9), Int2Num(10)),
     PriceObject(Int2Num(12), Int2Num(10), Int2Num(11)),
     PriceObject(Int2Num(5), Int2Num(5), Int2Num(5)),
     PriceObject(Int2Num(4), Int2Num(2), Undef)}

FeedItems(kind) == IF kind \in NumberKinds THEN FeedNumbers ELSE FeedCandles

\* new Variant(options) of the kinds fed below
FeedNew(kind, period, longPeriod, signalPeriod) ==
    /\ ind = IF kind = "MACD"
             THEN NewMACD(period, longPeriod, signalPeriod, IndicatorLimit)
             ELSE NewIndicator(kind, period, Undef, IndicatorLimit)
    /\ copy = NoIndicator
    /\ errors = IF Ind_constructorRaises THEN {"constructor"} ELSE {}
    /\ calls = <<>>

\* the caller got `more` new elements: a variant that reads a number series
\* is handed the whole series grown by them (its push starts at the length of
\* its base column), a variant that reads candles is handed the new candles
IndFeed(more) ==
    /\ Len(calls) < MaxCalls
    /\ SumLen(calls) + Len(more) <= MaxItems
    /\ LET r == Ind_push(ind, IF ind.kind \in NumberKinds
                              THEN Concat(calls) \o more ELSE more)
       IN  /\ ind' = r.ind
           /\ errors' = IF r.threw THEN errors \cup {"push"} ELSE errors
    /\ calls' = Append(calls, more)
    /\ UNCHANGED <<copy, storeVars, scenVars, runVars, eventVars>>

\* indicator.setLimit(lim)
IndSetLimit(lim) ==
    /\ ind' = IF lim < 0 THEN ind ELSE [ind EXCEPT !.limit = lim]
    /\ errors' = IF Ind_setLimitRaises(lim) THEN errors \cup {"setLimit"} ELSE errors
    /\ UNCHANGED <<copy, calls, storeVars, scenVars, runVars, eventVars>>

\* indicator.clone()
IndClone ==
    /\ IF Ind_cloneRaises
       THEN /\ errors' = errors \cup {"clone"}
            /\ copy' = copy
       ELSE /\ copy' = NewIndicator(ind.kind, ind.period, ind.multiplier, ind.limit)
            /\ errors' = errors
    /\ UNCHANGED <<ind, calls, storeVars, scenVars, runVars, eventVars>>


\* ------------------------------------------------- properties of the store
Rows(vals) == [i \in 1..AM_length(vals) |-> AM_getItemAt(vals, i - 1)]

ColumnsAligned(vals) == \A k \in DOMAIN vals : Len(vals[k]) = AM_length(vals)

WithinCapacity(vals, lim) == AM_length(vals) <= lim /\ ColumnsAligned(vals)

LastN(s, n) == SubSeq(s, Len(s) - n + 1, Len(s))

\* C1: after every Klines.push of a run made of pushes only, the length is
\* at most the capacity and all columns have the same length.
C1_PushKeepsCapacity == onlyPush => WithinCapacity(values, limit)

\* C2: after pushes that appended n rows in total, the store holds exactly
\* the last min(n, capacity) appended rows, in insertion order.
C2_PushKeepsLastRows ==
    onlyPush => Rows(values) = LastN(appended, Min2(Len(appended), limit))

\* C3: a Klines.splice with start in [0, length] and deleteCount >= 0 on a
\* store within its capacity leaves the store within its capacity, columns
\* aligned.
C3_SpliceKeepsCapacity ==
    [][\A start \in SpliceStarts, dc \in SpliceCounts, objects \in SpliceRows :
          (/\ KSplice(start, dc, objects)
           /\ start >= 0 /\ start <= AM_length(values) /\ dc >= 0
           /\ WithinCapacity(values, limit))
          => WithinCapacity(values', limit')]_vars

\* ---- the ledger: the order callback handed to the strategies
Truthy(v) == IsNum(v) /\ ~IsNaN(v) /\ v.n # 0

\* this.wallet[sym] || 0
OrZero(w, sym) == IF sym \in DOMAIN w /\ Truthy(w[sym]) THEN w[sym] ELSE Int2Num(0)

Two == Int2Num(2)

\* variant: the buy priced at the sell's (low+close)/2
BuyPrice_lowClose(candle) == NumDiv(NumAdd(candle.low, candle.close), Two)

BuyPrice(candle) == NumDiv(NumAdd(candle.high, candle.close), Two)
SellPrice(candle) == NumDiv(NumAdd(candle.low, candle.close), Two)

\* variants: a side without its funds guard
BuyAccepted_unguarded(w, sym2, value) == TRUE

SellAccepted_unguarded(w, sym1, quantity) == TRUE

\* the guards of the two sides
BuyAccepted(w, sym2, value) == NumGe(w[sym2], value)

SellAccepted(w, sym1, quantity) == NumGe(w[sym1], quantity)

\* (side, value) => { ... } with the candle and the symbols of its closure
OrderFn(w, side, value, candle, sym1, sym2) ==
    IF NumLeZero(value) THEN w
    ELSE LET w1 == MapSet(w, sym1, OrZero(w, sym1))
             w2 == MapSet(w1, sym2, OrZero(w1, sym2))
         IN  CASE side = "buy" ->
                    LET amount == NumDiv(value, BuyPrice(candle))
                    IN  IF BuyAccepted(w2, sym2, value)
                        THEN LET w3 == MapSet(w2, sym2, NumSub(w2[sym2], value))
                             IN  MapSet(w3, sym1, NumAdd(w3[sym1], amount))
                        ELSE w2
               [] side = "sell" ->
                    LET quantity == NumDiv(value, SellPrice(candle))
                    IN  IF SellAccepted(w2, sym1, quantity)
                        THEN LET w3 == MapSet(w2, sym1, NumSub(w2[sym1], quantity))
                             IN  MapSet(w3, sym2, NumAdd(w3[sym2], value))
                        ELSE w2
               [] OTHER -> w2

Sides == {"buy", "sell"}
OrderValues == {Int2Num(-1), Int2Num(3)}

\* ---- the master timeline: Array.from(new Set(ts)).sort((a, b) => a - b)
RECURSIVE SortAsc(_)
SortAsc(S) ==
    IF S = {} THEN <<>>
    ELSE LET m == CHOOSE x \in S : \A y \in S : x <= y
         IN  <<m>> \o SortAsc(S \ {m})

RECURSIVE InsertAsc(_, _)
InsertAsc(sorted, x) ==
    IF sorted = <<>> THEN <<x>>
    ELSE IF x <= Head(sorted) THEN <<x>> \o sorted
    ELSE <<Head(sorted)>> \o InsertAsc(Tail(sorted), x)

RECURSIVE SortSeqAsc(_)
SortSeqAsc(ts) == IF ts = <<>> THEN <<>> ELSE InsertAsc(SortSeqAsc(Tail(ts)), Head(ts))

\* variant: the timestamps sorted without the Set that drops duplicates
Timeline_keepDuplicates(ts) == SortSeqAsc(ts)

Timeline(ts) == SortAsc({ts[i] : i \in 1..Len(ts)})

RECURSIVE AllTimestamps(_, _)
AllTimestamps(ps, lists) ==
    IF ps = <<>> THEN <<>>
    ELSE [i \in 1..Len(lists[Head(ps)]) |-> lists[Head(ps)][i].timestamp]
            \o AllTimestamps(Tail(ps), lists)

\* the while loop of the tick: the index of the first candle with the
\* timestamp, 0 when there is none
Locate(list, timestamp) ==
    LET hit == {p \in 1..Len(list) : list[p].timestamp = timestamp}
    IN  IF hit = {} THEN 0 ELSE CHOOSE p \in hit : \A q \in hit : p <= q

\* variant: each strategy works on a wallet of its own that is dropped when
\* it returns
WalletAfterCall_rollback(w, seenAtCall) == seenAtCall

\* the wallet the next strategy finds once a strategy has returned: the one
\* object all order callbacks write to
WalletAfterCall(w, seenAtCall) == w

NoCandle == Candle(-1, 0, 0, 0)
NoOrder == [side |-> "none", value |-> Int2Num(0), before |-> EmptyMap,
            candle |-> NoCandle, sym1 |-> "", sym2 |-> ""]

ScenInit ==
    /\ api = FALSE
    /\ dataKeys = <<>>
    /\ dataMap = EmptyMap
    /\ wallet = EmptyMap
    /\ indicators = EmptyMap
    /\ strategies = 0
    /\ slimit = DefaultLimit
    /\ phase = "Idle"
    /\ startResult = "none"
    /\ pairs = <<>>
    /\ tempDataMap = EmptyMap
    /\ timestamps = <<>>
    /\ t = 0
    /\ stage = "none"
    /\ pi = 0
    /\ si = 0
    /\ price = NoCandle
    /\ tickLog = <<>>
    /\ processed = <<>>
    /\ callLog = <<>>
    /\ afterOrders = EmptyMap
    /\ seen = EmptyMap
    /\ lastOrder = NoOrder
    /\ ordersLeft = MaxOrders
    /\ runs = <<>>

replayVars == <<phase, startResult, pairs, tempDataMap, timestamps, t, stage, pi, si,
                price, tickLog, processed, callLog, afterOrders, seen, lastOrder,
                ordersLeft>>

\* The configuration calls are taken before start(); start() is taken once.

\* addSymbol(pairStr)
AddSymbol(pairStr) ==
    /\ phase = "Idle"
    /\ LET pair == ParseSymbolPair(pairStr)
       IN  IF pair = <<>>
           THEN UNCHANGED <<dataKeys, dataMap>>
           ELSE /\ dataKeys' = IF PairKey(pair) \in DOMAIN dataMap THEN dataKeys
                               ELSE Append(dataKeys, PairKey(pair))
                /\ dataMap' = MapSet(dataMap, PairKey(pair),
                                     [price |-> <<>>, indicators |-> EmptyMap])
    /\ UNCHANGED <<api, wallet, indicators, strategies, slimit, replayVars, storeVars, indVars, runVars, eventVars>>

RECURSIVE SetAll(_, _, _)
SetAll(w, input, keys) ==
    IF keys = {} THEN w
    ELSE LET key == CHOOSE x \in keys : TRUE
         IN  SetAll(MapSet(w, ToUpperSym(key), input[key]), input, keys \ {key})

\* setWallet(wallet)
SetWallet(input) ==
    /\ phase = "Idle"
    /\ wallet' = SetAll(wallet, input, DOMAIN input)
    /\ UNCHANGED <<api, dataKeys, dataMap, indicators, strategies, slimit, replayVars,
                   storeVars, indVars, runVars, eventVars>>

\* setAPI(apiReqFn)
SetAPI(isFunction) ==
    /\ phase = "Idle"
    /\ api' = isFunction
    /\ UNCHANGED <<dataKeys, dataMap, wallet, indicators, strategies, slimit, replayVars,
                   storeVars, indVars, runVars, eventVars>>

\* setLimit(limit)
SetLimit(lim) ==
    /\ phase = "Idle"
    /\ slimit' = lim
    /\ UNCHANGED <<api, dataKeys, dataMap, wallet, indicators, strategies, replayVars,
                   storeVars, indVars, runVars, eventVars>>

\* addIndicator(key, indicator)
AddIndicator(key, isIndicator, indicator) ==
    /\ phase = "Idle"
    /\ indicators' = IF isIndicator
                     THEN MapSet(indicators, key, Ind_setLimit(indicator, slimit))
                     ELSE indicators
    /\ UNCHANGED <<api, dataKeys, dataMap, wallet, strategies, slimit, replayVars,
                   storeVars, indVars, runVars, eventVars>>

\* addStrategy(strategyFn)
AddStrategy(isFunction) ==
    /\ phase = "Idle"
    /\ strategies < MaxStrategies
    /\ strategies' = IF isFunction THEN strategies + 1 ELSE strategies
    /\ UNCHANGED <<api, dataKeys, dataMap, wallet, indicators, slimit, replayVars,
                   storeVars, indVars, runVars, eventVars>>

configVars == <<api, dataKeys, dataMap, wallet, indicators, strategies, slimit>>

\* variant: start() without the check of this.api
StartThrows_never(apiSet) == FALSE

\* if (!this.api) throw new Error('API not set')
StartThrows(apiSet) == ~apiSet

\* start(): the synchronous part
Start ==
    /\ phase = "Idle"
    /\ IF StartThrows(api)
       THEN /\ startResult' = "threw"
            /\ UNCHANGED <<phase, pairs>>
       ELSE /\ startResult' = "started"
            /\ phase' = "Fetching"
            /\ pairs' = dataKeys
    /\ UNCHANGED <<configVars, tempDataMap, timestamps, t, stage, pi, si, price,
                   tickLog, processed, callLog, afterOrders, seen, lastOrder,
                   ordersLeft, storeVars, indVars, runVars, eventVars>>

PairSet == {pairs[i] : i \in 1..Len(pairs)}

RECURSIVE TotalLen(_, _)
TotalLen(lists, ks) ==
    IF ks = {} THEN 0
    ELSE LET k == CHOOSE x \in ks : TRUE
         IN  Len(lists[k]) + TotalLen(lists, ks \ {k})

\* what the data source may deliver: at most MaxCandles candles in all
FetchResults == {lists \in [PairSet -> PriceLists] : TotalLen(lists, PairSet) <= MaxCandles}

\* fetchAll(): the joint fetch has delivered one candle list per pair (the
\* callback of pairs.map awaits the data source; it is read as the async
\* function it is meant to be)
FetchAll(lists) ==
    /\ phase = "Fetching"
    /\ dataMap' = [k \in DOMAIN dataMap |->
                      IF k \in PairSet THEN [price |-> <<>>, indicators |-> EmptyMap]
                      ELSE dataMap[k]]
    /\ tempDataMap' = [k \in PairSet |->
                          [price |-> lists[k],
                           indicators |-> [key \in DOMAIN indicators |->
                                              Ind_clone(indicators[key])]]]
    /\ timestamps' = Timeline(AllTimestamps(pairs, lists))
    /\ phase' = "Replaying"
    /\ stage' = "loop"
    /\ t' = 0
    /\ UNCHANGED <<api, dataKeys, wallet, indicators, strategies, slimit, startResult,
                   pairs, pi, si, price, tickLog, processed, callLog, afterOrders,
                   seen, lastOrder, ordersLeft, storeVars, indVars, runVars, eventVars>>

\* loop(): entry of tick t
LoopEnter ==
    /\ phase = "Replaying"
    /\ stage = "loop"
    /\ tickLog' = Append(tickLog, t)
    /\ pi' = 1
    /\ stage' = "pair"
    /\ callLog' = <<>>
    /\ afterOrders' = wallet
    /\ UNCHANGED <<configVars, phase, startResult, pairs, tempDataMap, timestamps, t,
                   si, price, processed, seen, lastOrder, ordersLeft, storeVars, indVars, runVars, eventVars>>

\* loop(): one pair of the tick: the candle is located, appended to the
\* pair's store and handed to every indicator
PairStep ==
    /\ phase = "Replaying"
    /\ stage = "pair"
    /\ pi <= Len(pairs)
    /\ LET pair == pairs[pi]
           reference == tempDataMap[pair]
           p == IF t < Len(timestamps) THEN Locate(reference.price, timestamps[t + 1])
                ELSE 0
       IN  IF p = 0
           THEN /\ pi' = pi + 1
                /\ UNCHANGED <<dataMap, tempDataMap, price, processed, stage, si>>
           ELSE LET candle == reference.price[p]
                    inds == [key \in DOMAIN reference.indicators |->
                                MA_push(reference.indicators[key],
                                        IndicatorInput(reference.indicators[key], candle))]
                IN  /\ price' = candle
                    /\ dataMap' = [dataMap EXCEPT ![pair] =
                                      [price |-> Append(@.price, candle),
                                       indicators |-> inds]]
                    /\ tempDataMap' = [tempDataMap EXCEPT ![pair].indicators = inds]
                    /\ processed' = Append(processed, <<t, pair>>)
                    /\ stage' = "strat"
                    /\ si' = 1
                    /\ pi' = pi
    /\ UNCHANGED <<api, dataKeys, wallet, indicators, strategies, slimit, phase,
                   startResult, pairs, timestamps, t, tickLog, callLog, afterOrders,
                   seen, lastOrder, ordersLeft, storeVars, indVars, runVars, eventVars>>

\* strategy([sym1, sym2], tradeData, this.wallet, orderFn) is entered
StrategyCall ==
    /\ phase = "Replaying"
    /\ stage = "strat"
    /\ si <= strategies
    /\ stage' = "in"
    /\ seen' = wallet
    /\ callLog' = Append(callLog, [pair |-> pi, strategy |-> si, wallet |-> wallet,
                                   expected |-> afterOrders])
    /\ UNCHANGED <<configVars, phase, startResult, pairs, tempDataMap, timestamps, t,
                   pi, si, price, tickLog, processed, afterOrders, lastOrder,
                   ordersLeft, storeVars, indVars, runVars, eventVars>>

\* the running strategy calls its order callback
Order(side, value) ==
    /\ phase = "Replaying"
    /\ stage = "in"
    /\ ordersLeft > 0
    /\ LET syms == ParseSymbolPair(pairs[pi])
       IN  /\ wallet' = OrderFn(wallet, side, value, price, syms[1], syms[2])
           /\ lastOrder' = [side |-> side, value |-> value, before |-> wallet,
                            candle |-> price, sym1 |-> syms[1], sym2 |-> syms[2]]
    /\ afterOrders' = wallet'
    /\ ordersLeft' = ordersLeft - 1
    /\ UNCHANGED <<api, dataKeys, dataMap, indicators, strategies, slimit, phase,
                   startResult, pairs, tempDataMap, timestamps, t, stage, pi, si,
                   price, tickLog, processed, callLog, seen, storeVars, indVars, runVars, eventVars>>

\* the running strategy returns (lastOrder is the last order of the strategy
\* that is running)
StrategyReturn ==
    /\ phase = "Replaying"
    /\ stage = "in"
    /\ wallet' = WalletAfterCall(wallet, seen)
    /\ si' = si + 1
    /\ stage' = "strat"
    /\ seen' = EmptyMap
    /\ lastOrder' = NoOrder
    /\ UNCHANGED <<api, dataKeys, dataMap, indicators, strategies, slimit, phase,
                   startResult, pairs, tempDataMap, timestamps, t, pi, price, tickLog,
                   processed, callLog, afterOrders, ordersLeft, storeVars, indVars, runVars, eventVars>>

\* all strategies have run for the pair
PairDone ==
    /\ phase = "Replaying"
    /\ stage = "strat"
    /\ si > strategies
    /\ pi' = pi + 1
    /\ stage' = "pair"
    /\ UNCHANGED <<configVars, phase, startResult, pairs, tempDataMap, timestamps, t,
                   si, price, tickLog, processed, callLog, afterOrders, seen,
                   lastOrder, ordersLeft, storeVars, indVars, runVars, eventVars>>

\* loop(): t++ and the next tick is scheduled if one is left (callLog and
\* afterOrders are those of the tick that is running)
LoopExit ==
    /\ phase = "Replaying"
    /\ stage = "pair"
    /\ pi > Len(pairs)
    /\ t' = t + 1
    /\ IF t + 1 < Len(timestamps)
       THEN stage' = "loop" /\ phase' = phase
       ELSE stage' = "none" /\ phase' = "Done"
    /\ callLog' = <<>>
    /\ afterOrders' = EmptyMap
    /\ UNCHANGED <<configVars, startResult, pairs, tempDataMap, timestamps, pi, si,
                   price, tickLog, processed, seen, lastOrder, ordersLeft, storeVars, indVars, runVars, eventVars>>

\* ---- several calls of start(): each call has its own pairs, tempDataMap,
\* timestamps and t, and all of them work on this.dataMap
RunStages == {"fetching", "fetched", "waiting", "ended"}

Range(s) == {s[i] : i \in 1..Len(s)}

\* the then-callback of a finished fetchAll() is pending: it runs before any
\* timer and before any further call from outside
LoopPending == \E r \in 1..Len(runs) : runs[r].stage = "fetched"

\* start(), called at any time between two tasks
RunStart ==
    /\ Len(runs) < MaxRuns
    /\ ~LoopPending
    /\ IF StartThrows(api)
       THEN /\ startResult' = "threw"
            /\ runs' = runs
       ELSE /\ startResult' = "started"
            /\ runs' = Append(runs, [stage |-> "fetching", pairs |-> dataKeys,
                                     tempDataMap |-> EmptyMap, timestamps |-> <<>>,
                                     t |-> 0])
    /\ UNCHANGED <<configVars, phase, pairs, tempDataMap, timestamps, t, stage, pi, si,
                   price, tickLog, processed, callLog, afterOrders, seen, lastOrder,
                   ordersLeft, storeVars, indVars, eventVars>>

RunFetchResults(ps) ==
    {lists \in [Range(ps) -> PriceLists] : TotalLen(lists, Range(ps)) <= MaxCandles}

\* fetchAll() of run r has its candle lists: the stores of its pairs are
\* replaced by empty arrays
RunFetchAll(r, lists) ==
    /\ runs[r].stage = "fetching"
    /\ dataMap' = [k \in DOMAIN dataMap |->
                      IF k \in Range(runs[r].pairs)
                      THEN [price |-> <<>>, indicators |-> EmptyMap]
                      ELSE dataMap[k]]
    /\ runs' = [runs EXCEPT ![r] =
                   [stage |-> "fetched",
                    pairs |-> @.pairs,
                    tempDataMap |->
                        [k \in Range(@.pairs) |->
                            [price |-> lists[k],
                             indicators |-> [key \in DOMAIN indicators |->
                                                Ind_clone(indicators[key])]]],
                    timestamps |-> Timeline(AllTimestamps(@.pairs, lists)),
                    t |-> 0]]
    /\ UNCHANGED <<api, dataKeys, wallet, indicators, strategies, slimit, replayVars,
                   storeVars, indVars, eventVars>>

\* the for loop of loop() over the pairs ps of a run at the timestamp ts (<<>>
\* when timestamps[t] is undefined): dm is this.dataMap, tdm the tempDataMap
\* of the run; no strategy is registered
RECURSIVE RunPairs(_, _, _, _)
RunPairs(dm, tdm, ps, ts) ==
    IF ps = <<>> THEN [dataMap |-> dm, tempDataMap |-> tdm]
    ELSE LET pair == Head(ps)
             p == IF ts = <<>> THEN 0 ELSE Locate(tdm[pair].price, ts[1])
         IN  IF p = 0 THEN RunPairs(dm, tdm, Tail(ps), ts)
             ELSE LET candle == tdm[pair].price[p]
                      inds == [key \in DOMAIN tdm[pair].indicators |->
                                  MA_push(tdm[pair].indicators[key],
                                          IndicatorInput(tdm[pair].indicators[key],
                                                         candle))]
                  IN  RunPairs([dm EXCEPT ![pair] =
                                   [price |-> Append(@.price, candle),
                                    indicators |-> inds]],
                               [tdm EXCEPT ![pair].indicators = inds],
                               Tail(ps), ts)

\* loop() of run r: called by the then-callback of fetchAll() or by its timer
RunLoop(r) ==
    /\ runs[r].stage \in {"fetched", "waiting"}
    /\ runs[r].stage = "waiting" => ~LoopPending
    /\ strategies = 0
    /\ LET run == runs[r]
           ts == IF run.t < Len(run.timestamps) THEN <<run.timestamps[run.t + 1]>>
                 ELSE <<>>
           done == RunPairs(dataMap, run.tempDataMap, run.pairs, ts)
       IN  /\ dataMap' = done.dataMap
           /\ runs' = [runs EXCEPT ![r] =
                          [stage |-> IF run.t + 1 < Len(run.timestamps)
                                     THEN "waiting" ELSE "ended",
                           pairs |-> run.pairs,
                           tempDataMap |-> done.tempDataMap,
                           timestamps |-> run.timestamps,
                           t |-> run.t + 1]]
    /\ UNCHANGED <<api, dataKeys, wallet, indicators, strategies, slimit, replayVars,
                   storeVars, indVars, eventVars>>

Next ==
    \/ \E pairStr \in PairInputs : AddSymbol(pairStr)
    \/ \E input \in WalletInputs : SetWallet(input)
    \/ \E isFunction \in BOOLEAN : SetAPI(isFunction)
    \/ \E key \in IndicatorKeys, isIndicator \in BOOLEAN, period \in IndicatorPeriods :
          AddIndicator(key, isIndicator, NewMA(period))
    \/ \E isFunction \in BOOLEAN : AddStrategy(isFunction)
    \/ Start
    \/ (phase = "Fetching" /\ \E lists \in FetchResults : FetchAll(lists))
    \/ LoopEnter
    \/ PairStep
    \/ StrategyCall
    \/ \E side \in Sides, value \in OrderValues : Order(side, value)
    \/ StrategyReturn
    \/ PairDone
    \/ LoopExit

Init == StoreNew(KlinesLimit) /\ ScenInit /\ IndNone

Spec == Init /\ [][Next]_vars

\* the store alone, for every capacity up to MaxCap
InitStore == (\E c \in 0..MaxCap : StoreNew(c)) /\ ScenInit /\ IndNone

NextStore == StoreNext /\ UNCHANGED <<scenVars, indVars, runVars, eventVars>>

SpecStore == InitStore /\ [][NextStore]_vars

\* the store under single-row pushes and positional writes
AccessNext ==
    \/ \E objects \in SpliceRows : KPush(objects)
    \/ \E index \in SetIndexes, key \in SetKeys, value \in SetValues :
          KSetValueAt(index, key, value)

NextAccess == AccessNext /\ UNCHANGED <<scenVars, indVars, runVars, eventVars>>

SpecAccess == InitStore /\ [][NextAccess]_vars

\* an ArrayMap with listeners
EventNext ==
    \/ \E choice \in ListenerChoices : SetListener(choice[1], choice[2])
    \/ \E keys \in EventKeys : EvAddKey(keys)
    \/ \E objects \in EventBatches : EvPush(objects)
    \/ EvPop
    \/ \E start \in 0..1, dc \in 0..1, items \in SeqsUpTo(EventRows, 1) :
          EvSplice(start, dc, items)
    \/ EvClear
    \/ \E index \in EventIndexes, key \in EventSetKeys, value \in EventValues :
          EvSetValueAt(index, key, value)

NextEvents == EventNext /\ UNCHANGED <<scenVars, indVars, runVars>>

SpecEvents == Init /\ [][NextEvents]_vars

\* the window size: the configuration calls in any order, then a replay
\* without strategies (the ledger and the timeline above are checked with the
\* default limit, on which they do not depend)
ScenarioLimits == {1}

NextLimit ==
    \/ \E lim \in ScenarioLimits : SetLimit(lim)
    \/ \E pairStr \in PairInputs : AddSymbol(pairStr)
    \/ \E isFunction \in BOOLEAN : SetAPI(isFunction)
    \/ \E key \in IndicatorKeys, isIndicator \in BOOLEAN, period \in IndicatorPeriods :
          AddIndicator(key, isIndicator, NewMA(period))
    \/ Start
    \/ (phase = "Fetching" /\ \E lists \in FetchResults : FetchAll(lists))
    \/ LoopEnter
    \/ PairStep
    \/ PairDone
    \/ LoopExit

SpecLimit == Init /\ [][NextLimit]_vars

\* one indicator instance of every variant, period and capacity
InitInd ==
    /\ StoreNew(KlinesLimit)
    /\ ScenInit
    /\ \E kind \in IndicatorKinds, period \in Periods, lim \in IndicatorLimits :
          IndNew(kind, period, lim)

NextInd ==
    \/ \E n \in 1..(MaxItems - SumLen(calls)) :
          \E items \in [1..n -> ItemsOf(ind.kind)] : IndPush(items)
    \/ \E lim \in LimitInputs : IndSetLimit(lim)
    \/ IndClone

SpecInd == InitInd /\ [][NextInd]_vars

\* one instance of a variant that is fed its input piece by piece
InitFeed ==
    /\ StoreNew(KlinesLimit)
    /\ ScenInit
    /\ \E kind \in FeedKinds, period, longPeriod, signalPeriod \in Periods :
          /\ kind # "MACD" => longPeriod = 1 /\ signalPeriod = 1
          /\ FeedNew(kind, period, longPeriod, signalPeriod)

NextFeed ==
    \E n \in 1..(MaxItems - SumLen(calls)) :
       \E more \in [1..n -> FeedItems(ind.kind)] : IndFeed(more)

SpecFeed == InitFeed /\ [][NextFeed]_vars

\* a scenario on which start() is called several times
NextRuns ==
    \/ \E pairStr \in PairInputs : AddSymbol(pairStr)
    \/ \E isFunction \in BOOLEAN : SetAPI(isFunction)
    \/ RunStart
    \/ \E r \in 1..Len(runs) : \E lists \in RunFetchResults(runs[r].pairs) :
          RunFetchAll(r, lists)
    \/ \E r \in 1..Len(runs) : RunLoop(r)

SpecRuns == Init /\ [][NextRuns]_vars

\* ------------------------------------------------ properties of the ledger
Zero == Int2Num(0)

\* a balance as the ledger reads it: an entry that is missing counts as 0
Bal(w, sym) == IF sym \in DOMAIN w THEN w[sym] ELSE Zero

NumGt(a, b) == NumGe(a, b) /\ a # b

Ordered == lastOrder.side # "none"

\* the cases in which an order is to be rejected
RejectedCase(o) ==
    \/ NumLeZero(o.value)
    \/ o.side = "buy" /\ NumGt(o.value, Bal(o.before, o.sym2))
    \/ o.side = "sell" /\
         NumGt(NumDiv(o.value, NumDiv(NumAdd(o.candle.low, o.candle.close), Two)),
               Bal(o.before, o.sym1))

AcceptedBuyCase(o) ==
    o.side = "buy" /\ NumGt(o.value, Zero) /\ NumGe(Bal(o.before, o.sym2), o.value)

AcceptedSellCase(o) ==
    /\ o.side = "sell" /\ NumGt(o.value, Zero)
    /\ NumGe(Bal(o.before, o.sym1),
             NumDiv(o.value, NumDiv(NumAdd(o.candle.low, o.candle.close), Two)))

Symbols == {"A", "B", "C"}

C5_AcceptedOrderMovesFunds ==
    LET o == lastOrder
        others == \A sym \in Symbols \ {o.sym1, o.sym2} :
                     /\ (sym \in DOMAIN wallet) = (sym \in DOMAIN o.before)
                     /\ Bal(wallet, sym) = Bal(o.before, sym)
    IN  /\ AcceptedBuyCase(o) =>
              /\ Bal(wallet, o.sym2) = NumSub(Bal(o.before, o.sym2), o.value)
              /\ Bal(wallet, o.sym1) =
                    NumAdd(Bal(o.before, o.sym1),
                           NumDiv(o.value,
                                  NumDiv(NumAdd(o.candle.high, o.candle.close), Two)))
              /\ others
        /\ AcceptedSellCase(o) =>
              /\ Bal(wallet, o.sym1) =
                    NumSub(Bal(o.before, o.sym1),
                           NumDiv(o.value,
                                  NumDiv(NumAdd(o.candle.low, o.candle.close), Two)))
              /\ Bal(wallet, o.sym2) = NumAdd(Bal(o.before, o.sym2), o.value)
              /\ others

C5_Witness ==
    /\ AcceptedSellCase(lastOrder)
    /\ "C" \in DOMAIN wallet
    /\ NumGt(Bal(lastOrder.before, lastOrder.sym1), Zero)
    /\ lastOrder.candle.high # lastOrder.candle.low

NonNegative(w) == \A sym \in DOMAIN w : NumGe(w[sym], Zero)

\* C6 as stated: whatever the candles, no balance ever becomes negative (the
\* balances set by setWallet are >= 0).
C6_WalletNeverNegative == NonNegative(wallet)

ReplayedCandles ==
    UNION {{dataMap[k].price[i] : i \in 1..Len(dataMap[k].price)} : k \in DOMAIN dataMap}

\* C6 amended: no balance becomes negative as long as every replayed candle
\* has a positive buy price (high+close)/2.
C6_WalletNonNegativeAtPositivePrices ==
    (\A c \in ReplayedCandles : NumGt(NumDiv(NumAdd(c.high, c.close), Two), Zero))
        => NonNegative(wallet)

C6_Witness ==
    /\ AcceptedBuyCase(lastOrder)
    /\ \A c \in ReplayedCandles : NumGt(NumDiv(NumAdd(c.high, c.close), Two), Zero)
    /\ \E c \in ReplayedCandles : NumGt(Zero, NumDiv(NumAdd(c.low, c.close), Two))
    /\ Bal(wallet, lastOrder.sym2) = Zero
    /\ ordersLeft = 0

\* ------------------------------------------------ properties of the replay
\* C7: start() without a data-source function refuses to start: the error
\* is thrown, nothing is fetched, no tick runs, and the pair data, the
\* wallet and the registered indicators are what they were.
C7_StartRefusesWithoutApi ==
    /\ [](phase # "Idle" => api)
    /\ [][(Start /\ ~api) =>
            /\ startResult' = "threw"
            /\ phase' = "Idle"
            /\ UNCHANGED <<dataKeys, dataMap, wallet, indicators, strategies,
                           pairs, tempDataMap, timestamps, t, tickLog, processed>>]_vars

C7_Witness ==
    /\ startResult = "threw"
    /\ phase = "Idle"
    /\ ~api
    /\ dataKeys # <<>>
    /\ DOMAIN indicators # {}
    /\ DOMAIN wallet # {}

LexLess(a, b) == a.pair < b.pair \/ (a.pair = b.pair /\ a.strategy < b.strategy)

\* C8: the strategy invocations of a tick come one after the other in the
\* order (pair registration order, strategy registration order), and each
\* finds the wallet as the orders of the earlier invocations of the tick
\* left it.
C8_StrategiesShareWalletInOrder ==
    /\ phase \in {"Fetching", "Replaying", "Done"} => pairs = dataKeys
    /\ \A i \in 1..Len(callLog) :
          /\ callLog[i].wallet = callLog[i].expected
          /\ \A j \in 1..Len(callLog) : i < j => LexLess(callLog[i], callLog[j])
    /\ stage = "in" =>
          /\ callLog # <<>>
          /\ callLog[Len(callLog)].pair = pi
          /\ callLog[Len(callLog)].strategy = si

C8_Witness ==
    /\ Len(callLog) = 3
    /\ callLog[1].pair = callLog[2].pair
    /\ callLog[2].pair # callLog[3].pair
    /\ callLog[1].wallet # callLog[2].wallet
    /\ callLog[2].wallet # callLog[3].wallet
    /\ dataKeys = <<"B/A", "A/B">>

FetchedTimestamps ==
    UNION {{tempDataMap[k].price[i].timestamp : i \in 1..Len(tempDataMap[k].price)} :
              k \in DOMAIN tempDataMap}

HasCandle(k, timestamp) ==
    \E i \in 1..Len(tempDataMap[k].price) : tempDataMap[k].price[i].timestamp = timestamp

\* the (tick, pair) steps of ticks 0..n-1, in order
RECURSIVE ExpectedSteps(_)
ExpectedSteps(n) ==
    IF n = 0 THEN <<>>
    ELSE ExpectedSteps(n - 1) \o
         [e \in 1..Len(SelectSeq(pairs, LAMBDA k : HasCandle(k, timestamps[n]))) |->
             <<n - 1, SelectSeq(pairs, LAMBDA k : HasCandle(k, timestamps[n]))[e]>>]

IsPrefix(a, b) == Len(a) <= Len(b) /\ a = SubSeq(b, 1, Len(a))

StoreRows == [k \in DOMAIN dataMap |-> Len(dataMap[k].price)]

RECURSIVE CountSteps(_, _)
CountSteps(log, k) ==
    IF log = <<>> THEN 0
    ELSE (IF Head(log)[2] = k THEN 1 ELSE 0) + CountSteps(Tail(log), k)

\* C9: the timeline is the strictly ascending sequence of the distinct
\* timestamps of all pairs; the ticks run in its order, each once; tick t
\* handles exactly the pairs with a candle at timeline[t] (store append and
\* strategy calls for them alone); after the last tick nothing runs any more.
C9_TimelineState ==
    phase \in {"Replaying", "Done"} =>
        /\ \A i, j \in 1..Len(timestamps) : i < j => timestamps[i] < timestamps[j]
        /\ {timestamps[i] : i \in 1..Len(timestamps)} = FetchedTimestamps
        /\ \A i \in 1..Len(tickLog) : tickLog[i] = i - 1
        /\ IsPrefix(processed, ExpectedSteps(Len(timestamps)))
        /\ \A k \in DOMAIN dataMap : StoreRows[k] = CountSteps(processed, k)
        /\ stage \in {"strat", "in"} =>
              processed # <<>> /\ processed[Len(processed)] = <<t, pairs[pi]>>
        /\ phase = "Done" =>
              /\ processed = ExpectedSteps(Len(timestamps))
              /\ Len(tickLog) = Max2(Len(timestamps), 1)
              /\ t = Len(tickLog)

C9_TimelineAndTicks == []C9_TimelineState /\ [][phase # "Done"]_vars

C9_Witness ==
    /\ phase = "Done"
    /\ Len(timestamps) = 2
    /\ Len(pairs) = 2
    /\ Len(processed) = 2
    /\ processed[1][2] = pairs[2]
    /\ processed[2][2] = pairs[1]
    /\ strategies > 0

\* C10: when a strategy runs for a pair, every registered indicator of the
\* pair is in the pair's data with one output row for each candle of the
\* pair's store (at most capacity rows).
C10_IndicatorsConsumedTick ==
    stage = "in" =>
        LET tradeData == dataMap[pairs[pi]]
        IN  \A key \in DOMAIN indicators :
               /\ key \in DOMAIN tradeData.indicators
               /\ Len(tradeData.indicators[key].base) =
                     Min2(Len(tradeData.price), tradeData.indicators[key].limit)

\* ------------------------------------------- properties of the indicators
Columns(i) == DOMAIN i.values

AlignedColumns(i) == \A k, j \in Columns(i) : Len(i.values[k]) = Len(i.values[j])

RowsWithinLimit(i) == \A k \in Columns(i) : Len(i.values[k]) <= i.limit

\* C11: after construction and after any sequence of push and setLimit
\* calls, no call has raised an error, every output column of the indicator
\* holds at most limit rows and all output columns have the same length.
C11_IndicatorWithinCapacity ==
    /\ errors = {}
    /\ RowsWithinLimit(ind)
    /\ AlignedColumns(ind)

\* ------------------------------------------- properties of the window size
\* C12: during the replay every pair's candle store holds at most as many
\* rows as the scenario's limit at start, and every indicator of the pair has
\* that limit as its capacity.
C12_ReplayBoundedByScenarioLimit ==
    phase \in {"Replaying", "Done"} =>
        \A k \in PairSet :
            /\ Len(dataMap[k].price) <= slimit
            /\ \A key \in DOMAIN tempDataMap[k].indicators :
                  tempDataMap[k].indicators[key].limit = slimit

\* a fresh instance of the configuration of i
Fresh(i) == NewIndicator(i.kind, i.period, i.multiplier, i.limit)

\* C13: update(A) followed by update(A ++ B) (B may be empty) leaves the
\* output columns of a single update(A ++ B) on a fresh indicator.
C13_UpdateProcessesOnlySuffix ==
    (Len(calls) = 2 /\ IsPrefix(calls[1], calls[2])) =>
        ind.values = Ind_push(Fresh(ind), calls[2]).ind.values

\* an input element the variant cannot use: no number for the variants fed
\* with numbers, no candle of three numbers for the variants fed with candles
Malformed(kind, item) ==
    IF kind \in NumberKinds THEN ~IsNum(item)
    ELSE \/ item.t # "obj"
         \/ ~IsNum(item.high) \/ ~IsNum(item.low) \/ ~IsNum(item.close)

\* the markers of a row without value
NoValue(v) == v.t \in {"undef", "null"} \/ IsNaN(v)

\* C14: a first update with an array that may hold malformed elements raises
\* no error and leaves, in every output column, one row per input element,
\* the rows of base at the malformed indices being undefined, null or NaN.
C14_MalformedInputKeepsAlignment ==
    Len(calls) = 1 =>
        /\ "push" \notin errors
        /\ \A k \in Columns(ind) : Len(ind.values[k]) = Len(calls[1])
        /\ \A i \in 1..Len(calls[1]) :
              (Malformed(ind.kind, calls[1][i]) /\ i <= Len(ind.values.base))
                 => NoValue(ind.values.base[i])

\* C15: clone() raises no error and returns an instance with the
\* configuration of the original, empty output columns and a reset
\* recurrence state, and leaves the original as it was.
C15_CloneIsFreshCopy ==
    [][/\ "clone" \notin errors'
       /\ copy' # copy => (copy' = Fresh(ind) /\ ind' = ind)]_vars

\* ------------------------------------------- properties of the normaliser
CanonicalKeys == <<"timestamp", "open", "high", "low", "close">>

\* the field of an input record that holds the canonical field number i
\* under the scheme sch
CanonicalIn(sch, i) ==
    IF sch = 1 THEN <<"0", "1", "2", "3", "4">>[i]
    ELSE TransformFn(sch, CanonicalKeys[i])

\* the records the normaliser is to return
Canonical(data) ==
    IF Len(data) = 0 \/ SchemeOf(data[1]) = 0 THEN <<>>
    ELSE [r \in 1..Len(data) |->
            [k \in {CanonicalKeys[i] : i \in 1..Len(CanonicalKeys)} |->
                LET i == CHOOSE j \in 1..Len(CanonicalKeys) : CanonicalKeys[j] = k
                    raw == Field(data[r], CanonicalIn(SchemeOf(data[1]), i))
                IN  IF i = 1 THEN ParseInt(raw) ELSE ParseFloat(raw)]]

\* C16: the rows a push appends are the canonical records of the batch: one
\* record per input record, with the fields timestamp, open, high, low and
\* close parsed from the fields of the scheme of the first record, and no
\* record when the batch is empty or no scheme matches its first record.
C16_InvertYieldsCanonicalRecords ==
    [][\A objects \in Batches :
          (onlyPush /\ KPush(objects)) => appended' = appended \o Canonical(objects)]_vars

\* ------------------------------------- properties of positional mutation
\* C17: setValueAt(index, key, value) with index < 0 or index >= length
\* triggers onError and leaves the store as it was: the same columns with the
\* same cells.
C17_OutOfBoundsLeavesStore ==
    [][\A index \in SetIndexes, key \in SetKeys, value \in SetValues :
          ((index < 0 \/ index >= AM_length(values)) /\ KSetValueAt(index, key, value))
             => (lastOp' = "onError" /\ values' = values)]_vars

\* ------------------------------------- properties of ATR and SuperTrend

\* every call so far has handed over one candle object
OneCandleEach == \A c \in 1..Len(calls) : Len(calls[c]) = 1 /\ calls[c][1].t = "obj"

\* C18: for ATR and SuperTrend, successive updates with one candle each
\* leave the output columns of a single update with the whole sequence.
C18_IncrementalEqualsBatch ==
    (ind.kind \in {"ATR", "ST"} /\ OneCandleEach) =>
        ind.values = Ind_push(Fresh(ind), Concat(calls)).ind.values

\* the ticks of a SuperTrend instance: every element handed over so far is a
\* candle object, so that tick i is row i of every column
Ticks == Concat(calls)

CandleTicks == ind.kind = "ST" /\ \A i \in 1..Len(Ticks) : Ticks[i].t = "obj"

AtrDefined(i) == IsFinite(ToNumber(ind.values.base[i]))

Up == Int2Num(1)
Down == Int2Num(-1)

\* C19: the trend is null at every tick without ATR, +1 at the first tick
\* with an ATR, and at every later tick +1 if the close is above the upper
\* band published at the tick before, else -1 if it is below the lower band
\* published at the tick before, else the trend of the tick before; the trend
\* column holds nothing but +1, -1 and null.
C19_TrendStateMachine ==
    CandleTicks =>
        /\ Len(ind.values.trend) = Len(Ticks)
        /\ \A i \in 1..Len(Ticks) :
              LET trend == ind.values.trend[i]
              IN  /\ trend \in {Up, Down, Null}
                  /\ ~AtrDefined(i) => trend = Null
                  /\ (AtrDefined(i) /\ \A j \in 1..(i - 1) : ~AtrDefined(j))
                        => trend = Up
                  /\ (AtrDefined(i) /\ \E j \in 1..(i - 1) : AtrDefined(j))
                        => trend = IF JGt(Ticks[i].close, ind.values.upper[i - 1])
                                   THEN Up
                                   ELSE IF JLt(Ticks[i].close, ind.values.lower[i - 1])
                                        THEN Down
                                        ELSE ind.values.trend[i - 1]

\* a SuperTrend that went up, down and up again
C19_Witness ==
    /\ CandleTicks
    /\ ind.values.trend = <<Up, Down, Up>>

\* C20: whenever the trend is +1 at two consecutive ticks the upper band
\* published at the later tick is a number not above the one published at the
\* earlier tick, and whenever the trend is -1 at two consecutive ticks the
\* lower band published at the later tick is a number not below the one
\* published at the earlier tick.
C20_BandRatchet ==
    CandleTicks =>
        \A i \in 2..Len(ind.values.trend) :
            /\ (ind.values.trend[i - 1] = Up /\ ind.values.trend[i] = Up)
                  => /\ IsFinite(ToNumber(ind.values.upper[i]))
                     /\ NumGe(ind.values.upper[i - 1], ind.values.upper[i])
            /\ (ind.values.trend[i - 1] = Down /\ ind.values.trend[i] = Down)
                  => /\ IsFinite(ToNumber(ind.values.lower[i]))
                     /\ NumGe(ind.values.lower[i], ind.values.lower[i - 1])

\* ------------------------------------- properties of the computed series
FedATR == ind.kind = "ATR" /\ errors \subseteq {"constructor"}

CloseOf(c) == IF IsNullish(c.close) THEN HL2(c.high, c.low) ELSE c.close

\* the true range of the candle fed as number i (1-based)
TrueRange(i) ==
    LET c == Ticks[i]
        prevClose == IF i = 1 THEN HL2(c.high, c.low) ELSE CloseOf(Ticks[i - 1])
    IN  MathMax(NumSub(c.high, c.low),
                MathMax(MathAbs(NumSub(c.high, prevClose)),
                        MathAbs(NumSub(c.low, prevClose))))

RECURSIVE SumTrueRange(_)
SumTrueRange(n) == IF n = 0 THEN Zero ELSE NumAdd(SumTrueRange(n - 1), TrueRange(n))

\* Wilder's average of the true ranges at candle i >= p
RECURSIVE Wilder(_, _)
Wilder(i, p) ==
    IF i = p THEN NumDiv(SumTrueRange(p), Int2Num(p))
    ELSE NumDiv(NumAdd(NumMul(Wilder(i - 1, p), Int2Num(p - 1)), TrueRange(i)),
                Int2Num(p))

ExampleCandles ==
    <<PriceObject(Int2Num(10), Int2Num(8), Int2Num(9)),
      PriceObject(Int2Num(11), Int2Num(9), Int2Num(10)),
      PriceObject(Int2Num(12), Int2Num(10), Int2Num(11))>>

FlatCandles ==
    \A i \in 1..Len(Ticks) :
        Ticks[i] = Ticks[1] /\ Ticks[i].high = Ticks[i].low /\ Ticks[i].low = Ticks[i].close

\* C21: an ATR of period p fed candles one time each stores the true range
\* max(high-low, |high-prevClose|, |low-prevClose|) of every candle, the first
\* one taking its own hl2 as prevClose; its output has no value before candle
\* p, is the mean of the first p true ranges at candle p and Wilder's
\* smoothing (ATR[i-1]*(p-1) + TR[i]) / p after it; the three candles
\* (10,8,9), (11,9,10), (12,10,11) at p = 2 give no value, 2, 2, and
\* identical flat candles give 0 from candle p on.
C21_AtrSeries ==
    FedATR =>
        /\ Len(ind.values.base) = Len(Ticks)
        /\ Len(ind.values.range) = Len(Ticks)
        /\ \A i \in 1..Len(Ticks) :
              /\ ind.values.range[i] = TrueRange(i)
              /\ IF i < ind.period THEN NoValue(ind.values.base[i])
                 ELSE ind.values.base[i] = Wilder(i, ind.period)
        /\ (Ticks = ExampleCandles /\ ind.period = 2) =>
              /\ NoValue(ind.values.base[1])
              /\ ind.values.base[2] = Int2Num(2)
              /\ ind.values.base[3] = Int2Num(2)
        /\ FlatCandles =>
              \A i \in ind.period..Len(Ticks) : ind.values.base[i] = Zero

C21_Witness ==
    /\ FedATR
    /\ ind.period = 2
    /\ Ticks = ExampleCandles
    /\ Len(calls) = 2
    /\ ind.values.base = <<NaN, Int2Num(2), Int2Num(2)>>

FedRSI == ind.kind = "RSI" /\ errors \subseteq {"constructor"}

AllNumeric == \A i \in 1..Len(Ticks) : IsNum(Ticks[i])

Hundred == Int2Num(100)

\* the gain and the loss sample of input element k >= 2 (1-based)
GainAt(k) == MathMax(NumSub(Ticks[k], Ticks[k - 1]), Zero)
LossAt(k) == MathMax(NumSub(Ticks[k - 1], Ticks[k]), Zero)

RECURSIVE SumGain(_, _)
SumGain(from, to) == IF from > to THEN Zero ELSE NumAdd(SumGain(from, to - 1), GainAt(to))

RECURSIVE SumLoss(_, _)
SumLoss(from, to) == IF from > to THEN Zero ELSE NumAdd(SumLoss(from, to - 1), LossAt(to))

\* the means over the p samples that end at element i > p
AvgGain(i, p) == NumDiv(SumGain(i - p + 1, i), Int2Num(p))
AvgLoss(i, p) == NumDiv(SumLoss(i - p + 1, i), Int2Num(p))

RsiOfRatio(i, p) ==
    NumSub(Hundred, NumDiv(Hundred, NumAdd(Int2Num(1), NumDiv(AvgGain(i, p), AvgLoss(i, p)))))

\* C22: on an all-numeric input the RSI of period p is exactly 100 at every
\* element whose trailing p loss samples have mean 0, and
\* 100 - 100/(1 + avgGain/avgLoss) at every other element that has p samples.
C22_RsiValue ==
    (FedRSI /\ AllNumeric) =>
        \A i \in (ind.period + 1)..Len(Ticks) :
            ind.values.base[i] = IF AvgLoss(i, ind.period) = Zero THEN Hundred
                                 ELSE RsiOfRatio(i, ind.period)

\* the second half of C22 alone
C22_RsiValueWithLosses ==
    (FedRSI /\ AllNumeric) =>
        \A i \in (ind.period + 1)..Len(Ticks) :
            AvgLoss(i, ind.period) # Zero => ind.values.base[i] = RsiOfRatio(i, ind.period)

\* input element k (1-based) has a gain/loss sample: it and the element
\* before it are numbers
HasSample(k) == k >= 2 /\ IsNum(Ticks[k]) /\ IsNum(Ticks[k - 1])

\* C23: the RSI of period p has no value at any element at which fewer than
\* p gain/loss samples exist (on an all-numeric input: at the elements of
\* index below p), and every value it has is computed from p actual samples.
C23_RsiWarmUp ==
    FedRSI =>
        /\ Len(ind.values.base) = Len(Ticks)
        /\ \A i \in 1..Len(Ticks) :
              IsNum(ind.values.base[i]) =>
                  /\ i >= ind.period + 1
                  /\ \A k \in (i - ind.period + 1)..i : HasSample(k)

\* C23 without its first rows: an element that has p actual samples behind it
C23_RsiAfterWarmUp ==
    (FedRSI /\ AllNumeric) =>
        \A i \in (ind.period + 1)..Len(Ticks) : IsNum(ind.values.base[i])

FedMACD == ind.kind = "MACD" /\ errors \subseteq {"constructor"}

\* the element (1-based) at which the signal line starts: index long+signal-2
SignalStart == ind.longPeriod + ind.signalPeriod - 1

RECURSIVE SumOf(_, _, _)
SumOf(col, from, to) ==
    IF from > to THEN Zero ELSE NumAdd(SumOf(col, from, to - 1), col[to])

\* what C24 says of the columns of a MACD fed an all-numeric input
MacdColumns ==
    LET line == ind.values.base
        signal == ind.values.signal
        g == ind.signalPeriod
    IN  \A i \in 1..Len(Ticks) :
           /\ (IsNum(ind.values.short[i]) /\ IsNum(ind.values.long[i])) =>
                 line[i] = NumSub(ind.values.short[i], ind.values.long[i])
           /\ i < SignalStart => NoValue(signal[i])
           /\ i = SignalStart =>
                 /\ \A k \in (i - g + 1)..i : IsNum(line[k])
                 /\ signal[i] = NumDiv(SumOf(line, i - g + 1, i), Int2Num(g))
           /\ i > SignalStart =>
                 /\ IsNum(line[i]) /\ IsNum(signal[i - 1])
                 /\ signal[i] = NumAdd(NumMul(NumSub(line[i], signal[i - 1]),
                                              Num(2, g + 1)), signal[i - 1])
           /\ i >= SignalStart =>
                 /\ IsNum(line[i]) /\ IsNum(signal[i])
                 /\ ind.values.histogram[i] = NumSub(line[i], signal[i])

\* C24: for all positive short, long and signal periods and an all-numeric
\* input, the MACD line is short - long wherever both EMAs have a value, the
\* signal line starts at index long+signal-2 as the mean of the last signal
\* line values and follows the EMA recurrence of the signal period afterwards,
\* and the histogram is line - signal from that index on.
C24_MacdSeries == (FedMACD /\ AllNumeric) => MacdColumns

\* C24 for the configurations whose short period does not exceed the long one
C24_MacdSeriesShortWithinLong ==
    (FedMACD /\ AllNumeric /\ ind.shortPeriod <= ind.longPeriod) => MacdColumns

\* ---------------------------------------- properties of the replayed store
Occurrences(list, c) == Cardinality({i \in 1..Len(list) : list[i] = c})

SameCandles(a, b) ==
    /\ Len(a) = Len(b)
    /\ \A i \in 1..Len(b) : Occurrences(a, b[i]) = Occurrences(b, b[i])

Ascending(list) ==
    \A i \in 1..(Len(list) - 1) : list[i].timestamp <= list[i + 1].timestamp

DistinctTimestamps(list) ==
    \A i, j \in 1..Len(list) : list[i].timestamp = list[j].timestamp => i = j

\* C25: when a replay is done, the store of each pair holds exactly the
\* candles fetched for the pair, each one time, in ascending order of
\* timestamp, in whatever order they were delivered and also when candles of
\* the pair share a timestamp.
C25_ReplayStoresEveryCandle ==
    phase = "Done" =>
        \A k \in PairSet :
            /\ SameCandles(dataMap[k].price, tempDataMap[k].price)
            /\ Ascending(dataMap[k].price)

\* C25 for the pairs whose fetched candles have distinct timestamps
C25_ReplayStoresDistinctCandles ==
    phase = "Done" =>
        \A k \in PairSet :
            DistinctTimestamps(tempDataMap[k].price) =>
                /\ SameCandles(dataMap[k].price, tempDataMap[k].price)
                /\ Ascending(dataMap[k].price)

\* ------------------------------------- properties of overlapping replays
NoCandleTwice(list) == \A i, j \in 1..Len(list) : list[i] = list[j] => i = j

Overlapping == Len(runs) >= 2

\* C26: when start() is called again while an earlier replay is fetching or
\* between two of its ticks, no interleaving of the fetch completions and
\* ticks of the replays puts a candle twice into the store of a pair or
\* breaks the ascending order of the timestamps of a store, and no replay
\* loses a tick of its timeline.
C26_OverlappingReplaysKeepStores ==
    /\ \A k \in DOMAIN dataMap :
          /\ NoCandleTwice(dataMap[k].price)
          /\ Ascending(dataMap[k].price)
    /\ \A r \in 1..Len(runs) :
          /\ runs[r].stage \in RunStages
          /\ runs[r].stage = "ended" => runs[r].t >= Len(runs[r].timestamps)
          /\ runs[r].stage = "waiting" => runs[r].t < Len(runs[r].timestamps)

\* C26 for a scenario on which start() is called one time
C26_SingleReplayKeepsStores ==
    ~Overlapping => C26_OverlappingReplaysKeepStores

\* the part of C26 about the progress of each replay
C26_ReplaysKeepTheirTimeline ==
    \A r \in 1..Len(runs) :
        /\ runs[r].stage = "ended" => runs[r].t >= Len(runs[r].timestamps)
        /\ runs[r].stage = "waiting" => runs[r].t < Len(runs[r].timestamps)

\* --------------------------------------- properties of the event channel
\* the call of the step returned to its caller and left the store new
Completes(new) == outcome' = "returned" /\ values' = new

\* every call of the step that changes the store ran to its end
MutationsComplete ==
    /\ \A keys \in EventKeys :
          EvAddKey(keys) => Completes(AM_addKey(values, Range(keys)))
    /\ \A objects \in EventBatches :
          EvPush(objects) => Completes(AM_push(values, objects))
    /\ EvPop => Completes(AM_pop(values))
    /\ \A start \in 0..1, dc \in 0..1, items \in SeqsUpTo(EventRows, 1) :
          EvSplice(start, dc, items) => Completes(AM_splice(values, start, dc, items))
    /\ EvClear => Completes(AM_clear(values))
    /\ \A index \in EventIndexes, key \in EventSetKeys, value \in EventValues :
          EvSetValueAt(index, key, value) =>
              Completes(AM_setValueAt(values, index, key, value).vals)

\* C27: for any registered listeners, listeners that throw and an onError
\* listener that throws included, every call of addKey, push, pop, splice,
\* clear and setValueAt terminates, completes its change of the store and
\* propagates no exception to its caller.
C27_ListenersNeverBreakMutations == [][MutationsComplete]_vars

\* C27 for the stores whose onError listener does not throw
C27_MutationsCompleteUnlessOnErrorThrows ==
    [][listeners["onError"] # "throws" => MutationsComplete]_vars

FedEMA == ind.kind = "EMA" /\ errors \subseteq {"constructor"}

\* C28: an EMA of period p does not recover from a non-numeric input: when
\* the input element of index j is no number, the output has no value at any
\* index >= max(j, p-1), whatever follows; on an all-numeric input the output
\* of index p-1 is the moving average of the first p elements and every later
\* output has a value.
C28_EmaNeverRecovers ==
    FedEMA =>
        /\ Len(ind.values.base) = Len(Ticks)
        /\ \A j \in 1..Len(Ticks) :
              ~IsNum(Ticks[j]) =>
                  \A i \in Max2(j, ind.period)..Len(Ticks) : NoValue(ind.values.base[i])
        /\ AllNumeric =>
              /\ Len(Ticks) >= ind.period =>
                    ind.values.base[ind.period] =
                        NumDiv(SumOf(Ticks, 1, ind.period), Int2Num(ind.period))
              /\ \A i \in (ind.period + 1)..Len(Ticks) : IsFinite(ind.values.base[i])

C28_Witness ==
    /\ FedEMA
    /\ ind.period = 1
    /\ Len(calls) = 3
    /\ Ticks = <<Int2Num(1), Str("x"), Int2Num(3)>>
    /\ ind.values.base = <<Int2Num(1), Null, Null>>

====
